---- MODULE Spec2Model ----
(***************************************************************************)
(* Model of the dispatch core of the receipt bot (src/main.py): the        *)
(* webhook handler telegram_webhook, the profile / group / receipt         *)
(* functions it calls, and the document store they read and write.         *)
(*                                                                         *)
(* Encoding.                                                               *)
(*  - A Firestore collection is a function whose DOMAIN is the set of ids  *)
(*    of the documents that exist; a document (a Python dict) is a         *)
(*    function from field names to values, a field being present exactly   *)
(*    when it is in the DOMAIN.                                            *)
(*  - Python None is the string None for string-valued fields and NullVal  *)
(*    for number-valued fields; a JSON value that is not a number where a  *)
(*    number is expected is BadVal.  Amounts are integers (cents).         *)
(*  - Dates are day ordinals (ISO YYYY-MM-DD strings order the same way);  *)
(*    ParseDate converts the text to the ordinal.                          *)
(*  - Server timestamps are the value of the logical clock now.  Fields    *)
(*    that no modelled decision reads (requestedAt, createdAt,             *)
(*    statusUpdatedAt, groupLeftAt, lastUpdatedAt) are left out of the     *)
(*    documents.  groupJoinedAt is kept as a mark: TRUE once written.      *)
(***************************************************************************)
EXTENDS Integers, Sequences, FiniteSets, TLC

VARIABLES
    ADMIN_USER_ID,   \* the configured admin id (NoAdmin when the variable is unset)
    profiles,        \* collection user_profiles
    groups,          \* collection groups
    receipts,        \* collection receipts
    nextGroup,       \* number of group ids generated so far
    nextReceipt,     \* number of receipt ids generated so far
    now,             \* logical clock: server timestamp, and source of today's date
    handled,         \* number of updates handled so far
    call,            \* the invocation in progress: the update and what the handler did
    running          \* the invocations that run side by side: for each its
                     \* position, its arguments and what it has read

vars == <<ADMIN_USER_ID, profiles, groups, receipts, nextGroup, nextReceipt, now,
          handled, call, running>>

-----------------------------------------------------------------------------
(* Bounds *)

MaxGroups == 1
MaxReceipts == 1
MaxTime == 2
MaxEvents == 5
MaxDocs == 3
MaxGroupDocs == 2
MaxMonthToken == 13

-----------------------------------------------------------------------------
(* Values *)

None == "None"
NoAdmin == "NoAdmin"
NullVal == 0 - 1
BadVal == 0 - 2

Users == {"a", "u1"}
AdminIds == {"a", NoAdmin}

GroupIdOf == <<"g1", "g2", "g3", "g4">>
ReceiptIdOf == <<"r1", "r2", "r3", "r4">>
GroupIds == {GroupIdOf[i] : i \in 1..MaxGroups}
ReceiptIds == {ReceiptIdOf[i] : i \in 1..MaxReceipts}

IsNumber(v) == v >= 0

\* datetime.now().strftime("%Y-%m-%d"): the day the clock value falls in
TodaysDate(t) == t \div 2 + 1

-----------------------------------------------------------------------------
(* Python dict operations *)

Has(d, k) == k \in DOMAIN d
Get(d, k, default) == IF k \in DOMAIN d THEN d[k] ELSE default
Put(d, k, v) == [x \in (DOMAIN d) \cup {k} |-> IF x = k THEN v ELSE d[x]]
Pop(d, k) == [x \in (DOMAIN d) \ {k} |-> d[x]]
EmptyDict == [x \in {} |-> None]

\* the store as one value, threaded through the functions below
DB == [profiles |-> profiles, groups |-> groups, receipts |-> receipts,
       nextGroup |-> nextGroup, nextReceipt |-> nextReceipt]

RECURSIVE ArrayRemove(_, _)
ArrayRemove(s, x) ==
    IF s = <<>> THEN <<>>
    ELSE IF Head(s) = x THEN ArrayRemove(Tail(s), x)
    ELSE <<Head(s)>> \o ArrayRemove(Tail(s), x)

SeqToSet(s) == {s[i] : i \in 1..Len(s)}

\* list(set(xs)): the distinct elements, here in order of first occurrence
RECURSIVE ListOfSet(_)
ListOfSet(s) ==
    IF s = <<>> THEN <<>>
    ELSE <<Head(s)>> \o ListOfSet(ArrayRemove(Tail(s), Head(s)))

-----------------------------------------------------------------------------
(* Profile and authorization store *)

get_user_profile(db, user_id_str) ==
    IF user_id_str \in DOMAIN db.profiles THEN db.profiles[user_id_str] ELSE EmptyDict

\* a lookup that never finds the document
ProfileExists_Never(db, user_id_str) == FALSE

ProfileExists(db, user_id_str) == user_id_str \in DOMAIN db.profiles

\* variant: the id comparison is left out
is_user_admin_AnySender(user_id_str) ==
    ADMIN_USER_ID # NoAdmin

is_user_admin(user_id_str) ==
    user_id_str = ADMIN_USER_ID /\ ADMIN_USER_ID # NoAdmin

is_user_approved(db, user_id_str) ==
    \/ is_user_admin(user_id_str)
    \/ /\ ProfileExists(db, user_id_str)
       /\ Get(get_user_profile(db, user_id_str), "status", None) = "approved"

get_user_group_id(db, user_id_str) ==
    IF ProfileExists(db, user_id_str)
    THEN Get(get_user_profile(db, user_id_str), "groupId", None)
    ELSE None

GroupExists(db, group_id) == group_id \in DOMAIN db.groups

get_group_name(db, group_id) ==
    IF group_id # None /\ GroupExists(db, group_id)
    THEN Get(db.groups[group_id], "groupName", None)
    ELSE None

\* returns the store, the profile handed back, and the number of
\* pending-approval notices sent to the requesting chat
\* a default that approves nobody
DefaultStatus_Pending(user_id_str) == "pending_approval"

\* default_status: approved for the configured administrator's own profile
DefaultStatus(user_id_str) ==
    IF is_user_admin(user_id_str) THEN "approved" ELSE "pending_approval"

ensure_user_profile_exists(db, user_id_str) ==
    IF ~ProfileExists(db, user_id_str)
    THEN LET default_status == DefaultStatus(user_id_str)
             new_profile_data == [telegramUserId |-> user_id_str,
                                  groupId |-> None,
                                  status |-> default_status]
         IN [db |-> [db EXCEPT !.profiles =
                        Put(db.profiles, user_id_str, new_profile_data)],
             profile |-> new_profile_data,
             welcome |-> IF default_status = "pending_approval" THEN 1 ELSE 0]
    ELSE LET profile == get_user_profile(db, user_id_str)
         IN IF ~Has(profile, "status")
            THEN LET fixed == Put(profile, "status", "pending_approval")
                 IN [db |-> [db EXCEPT !.profiles[user_id_str] = fixed],
                     profile |-> fixed, welcome |-> 0]
            ELSE [db |-> db, profile |-> profile, welcome |-> 0]

admin_set_user_status(db, user_id_to_modify, new_status) ==
    IF new_status \notin {"approved", "banned", "pending_approval"}
    THEN [db |-> db, msg |-> "invalid_status"]
    ELSE IF ~ProfileExists(db, user_id_to_modify)
    THEN [db |-> db, msg |-> "user_not_found"]
    ELSE [db |-> [db EXCEPT !.profiles[user_id_to_modify] =
                     Put(@, "status", new_status)],
          msg |-> "status_set"]

-----------------------------------------------------------------------------
(* Groups *)

\* str.strip() on the strings the model uses
Strip(s) == IF s \in {"", " "} THEN "" ELSE s

\* a filter that lets no member through
IsApprovedProfile_Never(db, member_id) == FALSE

\* if profile_to_add and profile_to_add.get('status') == 'approved'
IsApprovedProfile(db, member_id) ==
    /\ ProfileExists(db, member_id)
    /\ Get(get_user_profile(db, member_id), "status", None) = "approved"

\* the filter loop over initial_member_ids of create_group_in_firestore
RECURSIVE ApprovedMembers(_, _)
ApprovedMembers(db, initial_member_ids) ==
    IF initial_member_ids = <<>> THEN <<>>
    ELSE LET member_id == Strip(Head(initial_member_ids))
             rest == ApprovedMembers(db, Tail(initial_member_ids))
         IN IF member_id = "" THEN rest
            ELSE IF IsApprovedProfile(db, member_id) THEN <<member_id>> \o rest
                 ELSE rest

\* the loop of merge-writes {'groupId': group_id, 'groupJoinedAt': ...} over
\* the initial members
RECURSIVE SetGroupIds(_, _, _)
SetGroupIds(profs, member_ids, group_id) ==
    IF member_ids = <<>> THEN profs
    ELSE SetGroupIds(Put(profs, Head(member_ids),
                         Put(Put(Get(profs, Head(member_ids), EmptyDict),
                                 "groupId", group_id),
                             "groupJoinedAt", TRUE)),
                     Tail(member_ids), group_id)

\* a name test that lets every name through
NameIsBlank_Never(group_name_str) == FALSE

\* if not group_name_str.strip()
NameIsBlank(group_name_str) == Strip(group_name_str) = ""

\* a member list stored with its repetitions
UniqueMembers_Keep(members_to_add_to_group) == members_to_add_to_group

\* 'memberUserIds': list(set(members_to_add_to_group))
UniqueMembers(members_to_add_to_group) == ListOfSet(members_to_add_to_group)

\* the second definition in the file, which is the one in effect
create_group_in_firestore(db, acting_user_id_str, group_name_str, initial_member_ids) ==
    LET is_admin_actor == is_user_admin(acting_user_id_str)
        failed(m) == [db |-> db, group_id |-> None, msg |-> m]
    IN IF NameIsBlank(group_name_str) THEN failed("name_empty")
       ELSE IF ~is_admin_actor /\ ~is_user_approved(db, acting_user_id_str)
       THEN failed("not_approved")
       ELSE IF ~is_admin_actor /\ get_user_group_id(db, acting_user_id_str) # None
       THEN failed("already_in_group")
       ELSE LET members_to_add_to_group ==
                    IF is_admin_actor THEN ApprovedMembers(db, initial_member_ids)
                    ELSE <<acting_user_id_str>>
                group_id == GroupIdOf[db.nextGroup + 1]
                group_data == [groupName |-> Strip(group_name_str),
                               ownerId |-> acting_user_id_str,
                               memberUserIds |-> UniqueMembers(members_to_add_to_group)]
            IN [db |-> [db EXCEPT !.groups = Put(@, group_id, group_data),
                                  !.nextGroup = @ + 1,
                                  !.profiles = SetGroupIds(@, members_to_add_to_group, group_id)],
                group_id |-> group_id,
                msg |-> "group_created"]

\* a test that never finds the member list empty
GroupIsEmpty_Never(group_data) == FALSE

\* if not group_data.get('memberUserIds'): the list is missing or empty
GroupIsEmpty(group_data) == Get(group_data, "memberUserIds", <<>>) = <<>>

\* a leave that does not touch the profile
LeaveProfileUpdate_Keep(profile) == profile

\* update({'groupId': DELETE_FIELD, ...}) on the leaving user's profile
LeaveProfileUpdate(profile) == Pop(profile, "groupId")

\* a guard that turns nobody away
LeaveRefused_Never(db, user_id_str) == FALSE

\* if not is_user_approved(user_id_str) or is_user_admin(user_id_str)
LeaveRefused(db, user_id_str) ==
    ~is_user_approved(db, user_id_str) \/ is_user_admin(user_id_str)

user_leave_group(db, user_id_str) ==
    IF LeaveRefused(db, user_id_str)
    THEN [db |-> db, msg |-> "for_regular_users"]
    ELSE LET current_group_id == get_user_group_id(db, user_id_str)
         IN IF current_group_id = None THEN [db |-> db, msg |-> "not_in_group"]
            ELSE LET db1 == [db EXCEPT !.profiles[user_id_str] = LeaveProfileUpdate(@)]
                 IN IF GroupExists(db, current_group_id)
                    THEN LET group_data_after_leave ==
                                 [db.groups[current_group_id] EXCEPT
                                     !.memberUserIds = ArrayRemove(@, user_id_str)]
                         IN IF GroupIsEmpty(group_data_after_leave)
                            THEN [db |-> [db1 EXCEPT !.groups = Pop(@, current_group_id)],
                                  msg |-> "left_group_deleted"]
                            ELSE [db |-> [db1 EXCEPT !.groups[current_group_id] =
                                                         group_data_after_leave],
                                  msg |-> "left_group"]
                    ELSE [db |-> db1, msg |-> "left_group"]

get_my_group_info(db, user_id_str) ==
    LET current_group_id == get_user_group_id(db, user_id_str)
    IN IF current_group_id = None THEN [db |-> db, msg |-> "not_in_group"]
       ELSE IF ~GroupExists(db, current_group_id)
       THEN [db |-> [db EXCEPT !.profiles[user_id_str] = Pop(@, "groupId")],
             msg |-> "group_inconsistent"]
       ELSE [db |-> db, msg |-> "group_info"]

admin_remove_user_from_group(db, user_id_to_remove, group_id_from_which_to_remove) ==
    IF ~ProfileExists(db, user_id_to_remove) THEN [db |-> db, msg |-> "user_not_found"]
    ELSE IF ~GroupExists(db, group_id_from_which_to_remove)
    THEN [db |-> db, msg |-> "group_not_found"]
    ELSE LET gid == group_id_from_which_to_remove
             updated_group == [db.groups[gid] EXCEPT
                                  !.memberUserIds = ArrayRemove(@, user_id_to_remove)]
             user_current_group ==
                 Get(get_user_profile(db, user_id_to_remove), "groupId", None)
             db1 == IF user_current_group = gid
                    THEN [db EXCEPT !.profiles[user_id_to_remove] = Pop(@, "groupId")]
                    ELSE db
         IN IF GroupIsEmpty(updated_group)
            THEN [db |-> [db1 EXCEPT !.groups = Pop(@, gid)],
                  msg |-> "removed_group_deleted"]
            ELSE [db |-> [db1 EXCEPT !.groups[gid] = updated_group],
                  msg |-> "removed"]

\* a loop body that clears nothing
ClearIfPointsAt_Skip(profs, member_id, group_id) == profs

\* the loop body: the member's groupId is deleted if the profile exists and
\* names the group
ClearIfPointsAt(profs, member_id, group_id) ==
    IF /\ member_id \in DOMAIN profs
       /\ Get(profs[member_id], "groupId", None) = group_id
    THEN [profs EXCEPT ![member_id] = Pop(@, "groupId")]
    ELSE profs

\* the loop of admin_delete_group clearing groupId on the listed members
RECURSIVE ClearGroupIds(_, _, _)
ClearGroupIds(profs, member_ids, group_id) ==
    IF member_ids = <<>> THEN profs
    ELSE ClearGroupIds(ClearIfPointsAt(profs, Head(member_ids), group_id),
                       Tail(member_ids), group_id)

admin_delete_group(db, group_id_to_delete) ==
    IF ~GroupExists(db, group_id_to_delete) THEN [db |-> db, msg |-> "group_not_found"]
    ELSE LET member_ids == Get(db.groups[group_id_to_delete], "memberUserIds", <<>>)
         IN [db |-> [db EXCEPT
                        !.profiles = ClearGroupIds(@, member_ids, group_id_to_delete),
                        !.groups = Pop(@, group_id_to_delete)],
             msg |-> "group_deleted"]

-----------------------------------------------------------------------------
(* Text conversions used by the edit command *)

\* float(s): the amount in cents, or BadVal when float() raises ValueError
FloatOf(s) ==
    CASE s = "10" -> 1000
      [] s = "12" -> 1200
      [] s = "5.5" -> 550
      [] s = "6.20" -> 620
      [] s = "1" -> 100
      [] s = "2" -> 200
      [] OTHER -> BadVal

\* float(q) if '.' in q else int(q): the quantity in hundredths, or BadVal
QuantityOf(s) ==
    CASE s = "1" -> 100
      [] s = "2" -> 200
      [] s = "0" -> 0
      [] OTHER -> BadVal

\* datetime.strptime(s, "%Y-%m-%d"): the day ordinal, or BadVal on ValueError
ParseDate(s) ==
    CASE s = "2023-01-01" -> 0
      [] s = "2024-06-15" -> 1
      [] s = "2024-06-16" -> 2
      [] OTHER -> BadVal

\* str.lower() on the header keys the model uses
Lower(s) ==
    CASE s = "Ref" -> "ref"
      [] s = "Store" -> "store"
      [] s = "Date" -> "date"
      [] s = "Total" -> "total"
      [] s = "Currency" -> "currency"
      [] s = "/START" -> "/start"
      [] OTHER -> s

\* round(a / b, 2) on amounts in cents and quantities in hundredths
RoundDiv(a, b) == (2 * a * 100 + b) \div (2 * b)

\* A line of the edit text is a record: t = "blank"; t = "kv" (has ':' and no
\* ';') with key and val; t = "item" (has ';') with parts, the ';'-separated
\* stripped fields; t = "other" (neither).
HeaderKeys == {"ref", "store", "date", "total", "currency"}

RECURSIVE ParseHeaderLines(_, _, _)
ParseHeaderLines(lines, i, acc) ==
    IF i > Len(lines) THEN acc
    ELSE LET line == lines[i]
             idx == i - 1
         IN IF line.t = "blank" THEN ParseHeaderLines(lines, i + 1, acc)
            ELSE IF line.t = "kv"
            THEN LET key_clean == Lower(line.key)
                     value_clean == line.val
                     marked == [acc EXCEPT !.header_lines_count = idx + 1]
                     next ==
                       IF key_clean \in HeaderKeys
                       THEN IF key_clean = "ref"
                            THEN [marked EXCEPT !.doc_id = value_clean]
                            ELSE IF key_clean = "total"
                            THEN IF FloatOf(value_clean) # BadVal
                                 THEN [marked EXCEPT !.header_data =
                                          Put(@, "total_price", FloatOf(value_clean))]
                                 ELSE [marked EXCEPT !.parse_errors =
                                          Append(@, "invalid_total")]
                            ELSE IF key_clean = "date"
                            THEN IF ParseDate(value_clean) # BadVal
                                 THEN [marked EXCEPT !.header_data =
                                          Put(@, "date", ParseDate(value_clean))]
                                 ELSE [marked EXCEPT !.parse_errors =
                                          Append(@, "invalid_date")]
                            ELSE IF key_clean = "store"
                            THEN [marked EXCEPT !.header_data =
                                     Put(@, "store_name", value_clean)]
                            ELSE [marked EXCEPT !.header_data =
                                     Put(@, "currency_code", value_clean)]
                       ELSE IF idx < 5
                       THEN [acc EXCEPT !.parse_errors =
                                Append(@, "unrecognized_header")]
                       ELSE acc
                 IN ParseHeaderLines(lines, i + 1, next)
            ELSE IF line.t = "item"
            THEN [acc EXCEPT !.item_lines_raw = SubSeq(lines, i, Len(lines))]
            ELSE IF idx >= acc.header_lines_count
            THEN ParseHeaderLines(lines, i + 1,
                     [acc EXCEPT !.parse_errors = Append(@, "unexpected_line")])
            ELSE ParseHeaderLines(lines, i + 1, acc)

parse_edited_receipt_text(lines) ==
    LET acc == ParseHeaderLines(lines, 1,
                   [doc_id |-> None, header_data |-> EmptyDict,
                    item_lines_raw |-> <<>>, parse_errors |-> <<>>,
                    header_lines_count |-> 0])
    IN IF acc.doc_id \in {None, ""}
       THEN [acc EXCEPT !.doc_id = None,
                        !.parse_errors = Append(@, "ref_missing")]
       ELSE acc

\* item_line.split(';') on a raw line: an item line gives its parts, any other
\* non-blank line is a single part
PartsOf(line) == IF line.t = "item" THEN line.parts ELSE <<"line">>

\* the loop over item_lines_raw of handle_simple_edit_receipt_command
RECURSIVE ParseItemLines(_, _)
ParseItemLines(item_lines_raw, acc) ==
    IF item_lines_raw = <<>> THEN acc
    ELSE LET line == Head(item_lines_raw)
             rest == Tail(item_lines_raw)
             parts == PartsOf(line)
         IN IF line.t = "blank" THEN ParseItemLines(rest, acc)
            ELSE IF Len(parts) < 3
            THEN ParseItemLines(rest,
                     [acc EXCEPT !.item_parse_errors = Append(@, "too_few_parts")])
            ELSE LET item_price == FloatOf(parts[2])
                     item_quantity_str == IF Len(parts) > 3 THEN parts[4] ELSE "1"
                     item_unit == IF Len(parts) > 4 THEN parts[5] ELSE "unit"
                     bad_quantity == QuantityOf(item_quantity_str) = BadVal
                     quantity == IF bad_quantity THEN 100
                                 ELSE QuantityOf(item_quantity_str)
                     item_data ==
                         [item_name |-> parts[1],
                          item_price |-> item_price,
                          grocery_category |-> parts[3],
                          quantity |-> quantity,
                          unit_of_measurement |-> item_unit,
                          price_per_unit |-> IF quantity > 0
                                             THEN RoundDiv(item_price, quantity)
                                             ELSE item_price]
                 IN IF item_price = BadVal
                    THEN ParseItemLines(rest,
                             [acc EXCEPT !.item_parse_errors =
                                 Append(@, "invalid_price")])
                    ELSE ParseItemLines(rest,
                             [acc EXCEPT
                                 !.parsed_items = Append(@, item_data),
                                 !.item_parse_errors =
                                     IF bad_quantity THEN Append(@, "invalid_quantity")
                                     ELSE @])

-----------------------------------------------------------------------------
(* Receipt store *)

ReceiptExists(db, doc_id) == doc_id \in DOMAIN db.receipts

\* variant: the receipt's group is compared without testing that it has one
MayEditOrView_NoGroupTest(db, user_id_str, receipt_data) ==
    \/ is_user_admin(user_id_str)
    \/ Get(receipt_data, "telegramUserId", None) = user_id_str
    \/ get_user_group_id(db, user_id_str) = Get(receipt_data, "groupId", None)

\* the authorization test shared by edit and view
MayEditOrView(db, user_id_str, receipt_data) ==
    LET is_admin_editing == is_user_admin(user_id_str)
        user_is_uploader == Get(receipt_data, "telegramUserId", None) = user_id_str
        user_group_id == get_user_group_id(db, user_id_str)
        receipt_group_id == Get(receipt_data, "groupId", None)
        user_in_receipt_group ==
            receipt_group_id # None /\ user_group_id = receipt_group_id
    IN is_admin_editing \/ user_is_uploader \/ user_in_receipt_group

\* variant: the original group is not carried over
PreserveUpload_NoGroup(corrected_data, original_receipt_data) ==
    Put(Put(corrected_data, "telegramUserId",
            Get(original_receipt_data, "telegramUserId", None)),
        "uploadTimestamp", Get(original_receipt_data, "uploadTimestamp", NullVal))

\* the part of both edit handlers that keeps uploader, upload time and group
PreserveUpload(corrected_data, original_receipt_data) ==
    LET p1 == Put(corrected_data, "telegramUserId",
                  Get(original_receipt_data, "telegramUserId", None))
        p2 == Put(p1, "uploadTimestamp",
                  Get(original_receipt_data, "uploadTimestamp", NullVal))
    IN IF Get(original_receipt_data, "groupId", None) # None
       THEN Put(p2, "groupId", original_receipt_data["groupId"])
       ELSE Pop(p2, "groupId")

\* variant: the verified flag is not set
MarkVerified_EditorOnly(data, user_id_str) ==
    Put(data, "editedBy", user_id_str)

\* the part of both edit handlers that marks the receipt as edited by the user
MarkVerified(data, user_id_str) ==
    Put(Put(data, "isVerifiedByUser", TRUE), "editedBy", user_id_str)

PreserveMetadata(corrected_data, original_receipt_data, user_id_str) ==
    MarkVerified(PreserveUpload(corrected_data, original_receipt_data), user_id_str)

\* a test that finds no error in any input
HasErrors_Never(all_errors) == FALSE

\* if all_errors: some header or item error was collected
HasErrors(all_errors) == all_errors # <<>>

handle_simple_edit_receipt_command(db, user_id_str, full_edit_text, clock) ==
    LET parsed == parse_edited_receipt_text(full_edit_text)
        doc_id_to_edit == parsed.doc_id
        parsed_header_data == parsed.header_data
    IN IF ~is_user_approved(db, user_id_str) THEN [db |-> db, msg |-> "not_approved"]
       ELSE IF doc_id_to_edit = None THEN [db |-> db, msg |-> "parse_error_no_ref"]
       ELSE IF parsed.parse_errors # <<>> /\ parsed.item_lines_raw = <<>>
       THEN [db |-> db, msg |-> "parse_error_headers"]
       ELSE IF ~ReceiptExists(db, doc_id_to_edit) THEN [db |-> db, msg |-> "not_found"]
       ELSE LET original_receipt_data == db.receipts[doc_id_to_edit]
            IN IF ~MayEditOrView(db, user_id_str, original_receipt_data)
               THEN [db |-> db, msg |-> "not_authorized"]
               ELSE LET items == ParseItemLines(parsed.item_lines_raw,
                                     [parsed_items |-> <<>>, item_parse_errors |-> <<>>])
                        all_errors == parsed.parse_errors \o items.item_parse_errors
                        corrected_data ==
                            [store_name |-> Get(parsed_header_data, "store_name",
                                                Get(original_receipt_data, "store_name", None)),
                             date |-> Get(parsed_header_data, "date",
                                          Get(original_receipt_data, "date",
                                              TodaysDate(clock))),
                             total_price |-> Get(parsed_header_data, "total_price",
                                                 Get(original_receipt_data, "total_price",
                                                     NullVal)),
                             currency_code |-> Get(parsed_header_data, "currency_code",
                                                   Get(original_receipt_data,
                                                       "currency_code", None)),
                             items |-> items.parsed_items]
                    IN IF HasErrors(all_errors) THEN [db |-> db, msg |-> "input_errors"]
                       ELSE [db |-> [db EXCEPT !.receipts[doc_id_to_edit] =
                                        PreserveMetadata(corrected_data,
                                            original_receipt_data, user_id_str)],
                             msg |-> "updated"]

\* The JSON form of the edit command.  json is the text after the receipt id:
\* kind = "malformed" (json.loads raises), "not_object" (valid JSON that is
\* not an object) or "object" with the parsed dict d.
handle_edit_receipt_command(db, user_id_str, doc_id_to_edit, json, clock) ==
    IF ~is_user_approved(db, user_id_str) THEN [db |-> db, msg |-> "not_approved"]
    ELSE IF doc_id_to_edit = "" \/ json.kind = "missing" THEN [db |-> db, msg |-> "usage"]
    ELSE IF json.kind = "malformed" THEN [db |-> db, msg |-> "invalid_json"]
    ELSE IF ~ReceiptExists(db, doc_id_to_edit) THEN [db |-> db, msg |-> "not_found"]
    ELSE LET original_receipt_data == db.receipts[doc_id_to_edit]
         IN IF ~MayEditOrView(db, user_id_str, original_receipt_data)
            THEN [db |-> db, msg |-> "not_authorized"]
            ELSE IF json.kind # "object" THEN [db |-> db, msg |-> "not_an_object"]
            ELSE LET d1 == IF Has(json.d, "items") THEN json.d
                           ELSE Put(json.d, "items", <<>>)
                     corrected_data_dict ==
                         IF Has(d1, "date") THEN d1
                         ELSE Put(d1, "date",
                                  Get(original_receipt_data, "date", TodaysDate(clock)))
                 IN [db |-> [db EXCEPT !.receipts[doc_id_to_edit] =
                                PreserveMetadata(corrected_data_dict,
                                    original_receipt_data, user_id_str)],
                     msg |-> "updated"]

\* variant: delete authorizes like edit, group members included
MayDelete_LikeEdit(db, acting_user_id_str, receipt_data) ==
    MayEditOrView(db, acting_user_id_str, receipt_data)

\* the authorization test of delete
MayDelete(db, acting_user_id_str, receipt_data) ==
    LET is_admin_deleting == is_user_admin(acting_user_id_str)
        user_is_uploader == Get(receipt_data, "telegramUserId", None) = acting_user_id_str
    IN is_admin_deleting \/ user_is_uploader

delete_receipt_from_firestore(db, acting_user_id_str, doc_id_to_delete) ==
    IF ~ReceiptExists(db, doc_id_to_delete) THEN [db |-> db, msg |-> "no_longer_exists"]
    ELSE IF ~MayDelete(db, acting_user_id_str, db.receipts[doc_id_to_delete])
    THEN [db |-> db, msg |-> "not_authorized"]
    ELSE [db |-> [db EXCEPT !.receipts = Pop(@, doc_id_to_delete)], msg |-> "deleted"]

\* the scope of a user's queries: field, value
get_query_target(db, user_id_str) ==
    LET group_id == get_user_group_id(db, user_id_str)
    IN IF group_id # None THEN [field |-> "groupId", value |-> group_id]
       ELSE [field |-> "telegramUserId", value |-> user_id_str]

\* the ids of the receipts a listing for the user returns
get_recent_receipts_for_user(db, user_id_str) ==
    LET target == get_query_target(db, user_id_str)
    IN {id \in DOMAIN db.receipts :
           Get(db.receipts[id], target.field, None) = target.value}

\* the query of _aggregate_spending: the scope equality and the two date
\* bounds (NullVal stands for an empty bound, which adds no filter; a filter
\* on date leaves out a document that has no date)
AggregationQuery(db, query_field, query_value, start_date_str, end_date_str) ==
    {id \in DOMAIN db.receipts :
        /\ Get(db.receipts[id], query_field, None) = query_value
        /\ start_date_str # NullVal
              => /\ Has(db.receipts[id], "date")
                 /\ db.receipts[id].date >= start_date_str
        /\ end_date_str # NullVal
              => /\ Has(db.receipts[id], "date")
                 /\ db.receipts[id].date <= end_date_str}

\* a test that finds every total valid
IsInvalidTotal_Never(current_total) == FALSE

\* if not isinstance(current_total, (int, float))
IsInvalidTotal(current_total) == ~IsNumber(current_total)

\* the loop over the documents of the query: totals that are not numbers
\* are skipped, the others are added up and counted
RECURSIVE AggregateDocs(_, _)
AggregateDocs(db, ids) ==
    IF ids = {} THEN [total_spent |-> 0, receipt_count |-> 0]
    ELSE LET doc_id == CHOOSE x \in ids : TRUE
             rest == AggregateDocs(db, ids \ {doc_id})
             current_total == Get(db.receipts[doc_id], "total_price", NullVal)
         IN IF IsInvalidTotal(current_total) THEN rest
            ELSE [total_spent |-> rest.total_spent + current_total,
                  receipt_count |-> rest.receipt_count + 1]

\* the report: which text is returned, and the count and the sum it shows
\* (the no-receipts text shows neither; the average is total / count to two
\* decimals; the per-category and per-store lines are not modelled)
_aggregate_spending(db, user_id_str, start_date_str, end_date_str, mode) ==
    LET target == get_query_target(db, user_id_str)
        acc == AggregateDocs(db, AggregationQuery(db, target.field, target.value,
                                                  start_date_str, end_date_str))
    IN IF acc.receipt_count = 0
       THEN [msg |-> "no_receipts", receipt_count |-> 0, total_spent |-> 0]
       ELSE IF mode = "total_by_date"
       THEN [msg |-> "total", receipt_count |-> acc.receipt_count,
             total_spent |-> acc.total_spent]
       ELSE IF mode = "avg_receipt"
       THEN [msg |-> "average", receipt_count |-> acc.receipt_count,
             total_spent |-> (2 * acc.total_spent + acc.receipt_count)
                                \div (2 * acc.receipt_count)]
       ELSE IF mode \in {"by_category", "by_store"}
       THEN [msg |-> mode, receipt_count |-> acc.receipt_count,
             total_spent |-> acc.total_spent]
       ELSE [msg |-> "invalid_mode", receipt_count |-> 0, total_spent |-> 0]

-----------------------------------------------------------------------------
(* Presentation: what the formatting code does with values it cannot format *)

\* f"{x:.2f}": fine for a number, TypeError for None, ValueError for a string
Format2f(x) == IF x = NullVal THEN "TypeError"
               ELSE IF x = BadVal THEN "ValueError" ELSE "ok"

FirstFailure(outcomes) ==
    IF \E i \in 1..Len(outcomes) : outcomes[i] # "ok"
    THEN outcomes[CHOOSE i \in 1..Len(outcomes) :
                     /\ outcomes[i] # "ok"
                     /\ \A j \in 1..(i - 1) : outcomes[j] = "ok"]
    ELSE "ok"

\* item_price None is shown as N/A; a price_per_unit that is not None is formatted
FormatItem(item) ==
    LET item_price == Get(item, "item_price", NullVal)
        price_per_unit_val == Get(item, "price_per_unit", NullVal)
    IN FirstFailure(<<IF item_price = NullVal THEN "ok" ELSE Format2f(item_price),
                      IF price_per_unit_val = NullVal THEN "ok"
                      ELSE Format2f(price_per_unit_val)>>)

format_single_receipt_for_view(receipt_data) ==
    LET items == Get(receipt_data, "items", <<>>)
    IN FirstFailure(<<Format2f(Get(receipt_data, "total_price", 0))>>
                    \o [i \in 1..Len(items) |-> FormatItem(items[i])])

\* one button line of a receipt list: store_name[:20] and total_price:.2f
FormatListEntry(receipt) ==
    FirstFailure(<<IF Get(receipt, "store_name", "Unknown Store") = None
                   THEN "TypeError" ELSE "ok",
                   Format2f(Get(receipt, "total_price", 0))>>)

\* format_receipt_list_for_display and format_receipt_list_for_delete: every
\* entry is formatted, a failing one raises
FormatListOk(db, ids) == \A id \in ids : FormatListEntry(db.receipts[id]) = "ok"

-----------------------------------------------------------------------------
(* The webhook handler *)

(* An inbound update is a record:                                          *)
(*   from    the sender's user id                                          *)
(*   kind    "message" or "callback"; for a request that carries no usable *)
(*           update, "not_post" (another HTTP method), "bad_json" (a body  *)
(*           that is not a JSON object) or "no_sender" (an object with     *)
(*           neither a message nor a callback query)                       *)
(*   word    the first whitespace-separated word of the text (or the       *)
(*           callback data) without a trailing receipt id; "" = no text    *)
(*   id      the receipt id that follows an id-bearing token, else ""      *)
(*   args    the words after the first word                                *)
(*   lines   the lines that follow /edit                                   *)
(*   attach  "none", "photo", "image_doc" (a document whose media type     *)
(*           starts with image/) or "other_doc"                            *)
(*   llm     what fetching the file and call_llm_for_receipt will give:    *)
(*           kind "object" with the parsed dict d, "not_object" (JSON that *)
(*           is not an object), "value_error" (call_llm_for_receipt        *)
(*           raises ValueError) or "fetch_failed" (get_file or the         *)
(*           download raises)                                              *)
(*   json    for a direct call of the JSON edit handler, its JSON argument *)

\* text.startswith('/')
SlashWords == {"/start", "/START", "/menu", "/adminhelp", "/listusers", "/approveuser",
               "/banuser", "/setuserstatus", "/admincreategroup", "/addusertogroup",
               "/removeuserfromgroup", "/deletegroup", "/deletereceipts",
               "/listreceipts", "/daterange", "/creategroup", "/joingroup", "/edit",
               "/mygroup", "/leavegroup", "/edithelp", "/foo"}

\* command_action as computed from the payload: word and embedded id
CommandAction(ev) ==
    IF ev.word = "" THEN [w |-> "", id |-> ""]
    ELSE IF ev.word \in SlashWords THEN [w |-> Lower(ev.word), id |-> ""]
    ELSE IF ev.kind = "callback" THEN [w |-> ev.word, id |-> ev.id]
    ELSE [w |-> "", id |-> ""]

Is(command_action, token) == command_action.w = token /\ command_action.id = ""
StartsWith(command_action, prefix) == command_action.w = prefix

\* what the handler has done so far
Out(db, sent, msg) ==
    [db |-> db, sent |-> sent, edited |-> 0, crashed |-> FALSE,
     llm_called |-> FALSE, suppressed |-> FALSE, msg |-> msg]
Raised(db, sent, msg) == [Out(db, sent, msg) EXCEPT !.crashed = TRUE]

AdminTokens == {"/adminhelp", "/listusers", "/approveuser", "/banuser", "/setuserstatus",
                "/admincreategroup", "/addusertogroup", "/removeuserfromgroup",
                "/deletegroup", "admin_menu", "admin_list_pending",
                "admin_list_approved", "admin_list_all", "admin_approve_prompt",
                "admin_ban_prompt", "admin_creategroup_prompt",
                "admin_addtogroup_prompt", "admin_removefromgroup_prompt",
                "admin_deletegroup_prompt"}

\* the admin block: the branch taken for a token in AdminTokens
AdminCommand(db, ev, command_action) ==
    LET command_args_list == ev.args
        user_id_str == ev.from
    IN IF Is(command_action, "/approveuser")
       THEN IF command_args_list # <<>>
            THEN LET r == admin_set_user_status(db, command_args_list[1], "approved")
                 IN Out(r.db, 1, r.msg)
            ELSE Out(db, 1, "usage")
       ELSE IF Is(command_action, "/banuser")
       THEN IF command_args_list # <<>>
            THEN LET r == admin_set_user_status(db, command_args_list[1], "banned")
                 IN Out(r.db, 1, r.msg)
            ELSE Out(db, 1, "usage")
       ELSE IF Is(command_action, "/setuserstatus")
       THEN IF Len(command_args_list) = 2
            THEN LET r == admin_set_user_status(db, command_args_list[1],
                                                command_args_list[2])
                 IN Out(r.db, 1, r.msg)
            ELSE Out(db, 1, "usage")
       ELSE IF Is(command_action, "/admincreategroup")
       THEN LET group_name_adm == IF command_args_list # <<>>
                                  THEN command_args_list[1] ELSE ""
                initial_m_adm == IF command_args_list # <<>>
                                 THEN Tail(command_args_list) ELSE <<>>
            IN IF group_name_adm = "" THEN Out(db, 1, "usage")
               ELSE LET r == create_group_in_firestore(db, user_id_str,
                                 group_name_adm, initial_m_adm)
                    IN Out(r.db, 1, r.msg)
       ELSE IF Is(command_action, "/addusertogroup")
       THEN IF Len(command_args_list) = 2
            THEN Raised(db, 0, "NameError")    \* admin_add_user_to_group is not defined
            ELSE Out(db, 1, "usage")
       ELSE IF Is(command_action, "/removeuserfromgroup")
       THEN IF Len(command_args_list) = 2
            THEN LET r == admin_remove_user_from_group(db, command_args_list[1],
                                                       command_args_list[2])
                 IN Out(r.db, 1, r.msg)
            ELSE Out(db, 1, "usage")
       ELSE IF Is(command_action, "/deletegroup")
       THEN IF command_args_list # <<>>
            THEN LET r == admin_delete_group(db, command_args_list[1])
                 IN Out(r.db, 1, r.msg)
            ELSE Out(db, 1, "usage")
       ELSE Out(db, 1, "admin_text")   \* help, user lists, admin menu, prompts

\* variant: today's date only fills in for a missing date
StampDate_KeepExtracted(receipt_data_from_llm, clock) ==
    IF Has(receipt_data_from_llm, "date") THEN receipt_data_from_llm
    ELSE Put(receipt_data_from_llm, "date", TodaysDate(clock))

\* the extractor's date is discarded and today's date is put in its place
StampDate(receipt_data_from_llm, clock) ==
    Put(Pop(receipt_data_from_llm, "date"), "date", TodaysDate(clock))

\* a tagging that leaves an extracted groupId in place
TagGroup_KeepExtracted(receipt_data_to_save, current_group_id) ==
    IF current_group_id # None
    THEN Put(receipt_data_to_save, "groupId", current_group_id)
    ELSE receipt_data_to_save

\* the upload is tagged with the uploader's current group, or with none
TagGroup(receipt_data_to_save, current_group_id) ==
    IF current_group_id # None
    THEN Put(receipt_data_to_save, "groupId", current_group_id)
    ELSE Pop(receipt_data_to_save, "groupId")

\* a handler that swallows the ValueError after the acknowledgement
OnValueError_Silent(db) ==
    [Out(db, 1, "") EXCEPT !.llm_called = TRUE]

\* except ValueError: the acknowledgement was sent, the error text is sent,
\* nothing was saved
OnValueError(db) ==
    [Out(db, 2, "processing_error") EXCEPT !.llm_called = TRUE]

\* the image branch: acknowledge, fetch, extract, stamp, save, show
ProcessImage(db, ev, clock) ==
    LET user_id_str == ev.from
    IN IF ev.llm.kind = "fetch_failed" THEN Out(db, 2, "image_error")
       ELSE IF ev.llm.kind = "value_error" THEN OnValueError(db)
       ELSE IF ev.llm.kind # "object"
       THEN [Out(db, 2, "image_error") EXCEPT !.llm_called = TRUE]
       ELSE LET receipt_data_from_llm == ev.llm.d
                d1 == StampDate(receipt_data_from_llm, clock)
                current_group_id == get_user_group_id(db, user_id_str)
                d2 == Put(d1, "telegramUserId", user_id_str)
                d3 == TagGroup(d2, current_group_id)
                d4 == Put(d3, "uploadTimestamp", clock)
                receipt_data_to_save == Put(d4, "isVerifiedByUser", FALSE)
                doc_id == ReceiptIdOf[db.nextReceipt + 1]
                saved == [db EXCEPT !.receipts = Put(@, doc_id, receipt_data_to_save),
                                    !.nextReceipt = @ + 1]
                shown == format_single_receipt_for_view(receipt_data_to_save)
            IN [Out(saved, 2, IF shown = "ok" THEN "receipt_shown"
                              ELSE IF shown = "ValueError" THEN "processing_error"
                              ELSE "image_error")
                   EXCEPT !.llm_called = TRUE]

\* the first chain of handlers: the delete tokens
DeleteChain(db, ev, command_action) ==
    LET user_id_str == ev.from
    IN IF Is(command_action, "/deletereceipts")
       THEN IF ~is_user_approved(db, user_id_str) THEN Out(db, 1, "not_approved")
            ELSE IF FormatListOk(db, get_recent_receipts_for_user(db, user_id_str))
            THEN Out(db, 1, "delete_list")
            ELSE Raised(db, 0, "FormatError")
       ELSE IF StartsWith(command_action, "del_confirm_req_")
       THEN LET doc_id_to_confirm == command_action.id
            IN IF doc_id_to_confirm = "" THEN Out(db, 1, "invalid_reference")
               ELSE IF ~ReceiptExists(db, doc_id_to_confirm) THEN Out(db, 1, "not_found")
               ELSE IF ~MayDelete(db, user_id_str, db.receipts[doc_id_to_confirm])
               THEN Out(db, 1, "not_authorized")
               ELSE IF Format2f(Get(db.receipts[doc_id_to_confirm], "total_price", 0)) = "ok"
               THEN Out(db, 1, "confirm_prompt")
               ELSE Raised(db, 0, "FormatError")
       ELSE IF StartsWith(command_action, "del_do_")
       THEN LET doc_id_to_delete == command_action.id
            IN IF doc_id_to_delete = "" THEN Out(db, 1, "invalid_reference")
               ELSE LET r == delete_receipt_from_firestore(db, user_id_str,
                                                           doc_id_to_delete)
                    IN IF ev.kind = "callback"
                       THEN Raised(r.db, 0, r.msg)    \* edit_tg_message is not defined
                       ELSE Out(r.db, 1, r.msg)
       ELSE IF StartsWith(command_action, "del_cancel_")
       THEN IF ev.kind = "callback"
            THEN Raised(db, 0, "NameError")           \* edit_tg_message is not defined
            ELSE Out(db, 1, "cancelled")
       ELSE Out(db, 0, "")

\* the second chain of handlers: menus, summaries, edit, lists, view
MenuChain(db, ev, command_action, clock) ==
    LET user_id_str == ev.from
        has_text == ev.word # ""
    IN IF Is(command_action, "main_menu") THEN Out(db, 1, "main_menu")
       ELSE IF Is(command_action, "group_menu_user") THEN Out(db, 1, "group_menu")
       ELSE IF Is(command_action, "mygroup_info_action")
       THEN LET r == get_my_group_info(db, user_id_str) IN Out(r.db, 1, r.msg)
       ELSE IF Is(command_action, "leavegroup_action_user")
       THEN LET r == user_leave_group(db, user_id_str) IN Out(r.db, 1, r.msg)
       ELSE IF \/ Is(command_action, "summary_current_month")
               \/ Is(command_action, "summary_category_current_month")
               \/ Is(command_action, "summary_store_current_month")
               \/ Is(command_action, "summary_avg_receipt_current_month")
       THEN Out(db, 1, "summary")
       ELSE IF Is(command_action, "summary_date_range_prompt")
       THEN Out(db, 1, "daterange_prompt")
       ELSE IF Is(command_action, "/daterange")
       THEN IF Len(ev.args) = 2 THEN Out(db, 1, "summary") ELSE Out(db, 1, "usage")
       ELSE IF Is(command_action, "/creategroup") THEN Out(db, 1, "ask_admin")
       ELSE IF Is(command_action, "/joingroup") THEN Out(db, 1, "ask_admin")
       ELSE IF Is(command_action, "/edit")
       THEN IF ev.lines = <<>> THEN Out(db, 1, "edit_instructions")
            ELSE LET r == handle_simple_edit_receipt_command(db, user_id_str,
                              ev.lines, clock)
                 IN Out(r.db, 1, r.msg)
       ELSE IF ev.kind = "message" /\ has_text /\ command_action.w = ""
       THEN Out(db, 1, "not_understood")
       ELSE IF ev.kind = "callback" /\ command_action.w = "" THEN Out(db, 0, "")
       ELSE IF ~has_text /\ ev.attach # "photo" THEN Out(db, 0, "")
       ELSE IF Is(command_action, "list_receipts_action") \/ Is(command_action, "/listreceipts")
       THEN IF FormatListOk(db, get_recent_receipts_for_user(db, user_id_str))
            THEN Out(db, 1, "receipt_list")
            ELSE Raised(db, 0, "FormatError")
       ELSE IF Is(command_action, "delete_receipts_action") \/ Is(command_action, "/deletereceipts")
       THEN IF ~is_user_approved(db, user_id_str) THEN Out(db, 1, "not_approved")
            ELSE IF FormatListOk(db, get_recent_receipts_for_user(db, user_id_str))
            THEN Out(db, 1, "delete_list")
            ELSE Raised(db, 0, "FormatError")
       ELSE IF StartsWith(command_action, "view_receipt_")
       THEN LET doc_id_to_view == command_action.id
            IN IF doc_id_to_view = "" THEN Out(db, 1, "invalid_reference")
               ELSE IF ~ReceiptExists(db, doc_id_to_view) THEN Out(db, 1, "not_found")
               ELSE IF ~MayEditOrView(db, user_id_str, db.receipts[doc_id_to_view])
               THEN Out(db, 1, "not_authorized")
               ELSE IF format_single_receipt_for_view(db.receipts[doc_id_to_view]) = "ok"
               THEN Out(db, 1, "receipt_view")
               ELSE Raised(db, 0, "FormatError")
       ELSE Out(db, 0, "")

\* variant: only pending users are held back
SuppressedStatus_PendingOnly(is_current_user_admin, current_user_status) ==
    ~is_current_user_admin /\ current_user_status = "pending_approval"

\* variant: the admin is held back like anyone else
SuppressedStatus_AdminToo(is_current_user_admin, current_user_status) ==
    current_user_status \in {"pending_approval", "banned"}

\* the access-control test: a sender who is not the admin and whose status is
\* pending_approval or banned gets no further processing
SuppressedStatus(is_current_user_admin, current_user_status) ==
    ~is_current_user_admin /\ current_user_status \in {"pending_approval", "banned"}

\* a detection that knows photos only
IsImage_PhotoOnly(attach) == attach = "photo"

\* image_to_process_info is set: a photo, or a document whose media type
\* starts with image/
IsImage(attach) == attach \in {"photo", "image_doc"}

\* everything after the profile has been ensured
Dispatch(db, ev, current_user_status, clock) ==
    LET user_id_str == ev.from
        is_current_user_admin == is_user_admin(user_id_str)
        parsed_action == CommandAction(ev)
        gated == SuppressedStatus(is_current_user_admin, current_user_status)
    IN IF is_current_user_admin /\ parsed_action.id = "" /\ parsed_action.w \in AdminTokens
       THEN AdminCommand(db, ev, parsed_action)
       ELSE IF Is(parsed_action, "/start") /\ gated
       THEN [Out(db, IF current_user_status = "banned" THEN 1 ELSE 0, "restricted")
                EXCEPT !.suppressed = TRUE]
       ELSE IF gated
       THEN [Out(db, IF parsed_action.w # "" THEN 1 ELSE 0, "restricted")
                EXCEPT !.suppressed = TRUE]
       ELSE LET command_action == IF Is(parsed_action, "/start")
                                  THEN [w |-> "main_menu", id |-> ""]
                                  ELSE parsed_action
            IN IF IsImage(ev.attach) THEN ProcessImage(db, ev, clock)
               ELSE LET rejected == IF ev.attach = "other_doc" THEN 1 ELSE 0
                    IN \* first and second: what each chain did, computed once
                       CHOOSE done \in
                         {IF first.crashed
                          THEN [first EXCEPT !.sent = @ + rejected]
                          ELSE CHOOSE both \in
                                 {[second EXCEPT
                                      !.sent = @ + first.sent + rejected,
                                      !.msg = IF first.msg # "" THEN first.msg ELSE @] :
                                    second \in {MenuChain(first.db, ev, command_action,
                                                          clock)}} : TRUE :
                            first \in {DeleteChain(db, ev, command_action)}} : TRUE


-----------------------------------------------------------------------------
(* Inputs *)

NoLLM == [kind |-> "none"]

Message(u, word, args) ==
    [from |-> u, kind |-> "message", word |-> word, id |-> "", args |-> args,
     lines |-> <<>>, attach |-> "none", llm |-> NoLLM, json |-> NoLLM]
Callback(u, word, id) ==
    [from |-> u, kind |-> "callback", word |-> word, id |-> id, args |-> <<>>,
     lines |-> <<>>, attach |-> "none", llm |-> NoLLM, json |-> NoLLM]
EditMessage(u, lines) ==
    [from |-> u, kind |-> "message", word |-> "/edit", id |-> "", args |-> <<>>,
     lines |-> lines, attach |-> "none", llm |-> NoLLM, json |-> NoLLM]
Attachment(u, attach, llm) ==
    [from |-> u, kind |-> "message", word |-> "", id |-> "", args |-> <<>>,
     lines |-> <<>>, attach |-> attach, llm |-> llm, json |-> NoLLM]
\* a message that carries a text and an attachment: the payload is taken as
\* it is given, text_payload from message.text and the image from
\* message.photo or message.document
TextAndAttachment(u, word, attach, llm) ==
    [Attachment(u, attach, llm) EXCEPT !.word = word]
\* a direct call handle_edit_receipt_command(u, "<id> <json>"), which no
\* branch of the webhook makes
JsonEditCall(u, id, json) ==
    [from |-> u, kind |-> "call", word |-> "handle_edit_receipt_command", id |-> id,
     args |-> <<>>, lines |-> <<>>, attach |-> "none", llm |-> NoLLM, json |-> json]

\* extraction results: a complete draft, and one without date and items, with
\* a null total and with metadata fields of its own
Milk == [item_name |-> "Milk 3%", item_price |-> 620,
         grocery_category |-> "Dairy & Eggs", quantity |-> 100,
         price_per_unit |-> 620, unit_of_measurement |-> "L"]
DraftFull == [store_name |-> "Example Supermarket", date |-> 0, total_price |-> 1000,
              currency_code |-> "ILS", items |-> <<Milk>>]
DraftBare == [store_name |-> "Corner Shop", total_price |-> NullVal,
              telegramUserId |-> "u2", groupId |-> "g1"]
Extractions == {[kind |-> "object", d |-> DraftFull],
                [kind |-> "object", d |-> DraftBare],
                [kind |-> "not_object"],
                [kind |-> "value_error"],
                [kind |-> "fetch_failed"]}

\* a direct call _aggregate_spending(u, start, end, "total_by_date")
AggregateCall(u, start_date_str, end_date_str) ==
    [from |-> u, kind |-> "call", word |-> "_aggregate_spending", id |-> "",
     args |-> <<start_date_str, end_date_str>>, lines |-> <<>>, attach |-> "none",
     llm |-> NoLLM, json |-> NoLLM]

\* stored receipts for the aggregation: uploaded by u1 with no group or by
\* the administrator within group g1, dated day 1 or day 2, with a total of
\* 10.00, of 5.50 or one that is not a number
AggReceipts ==
    {[telegramUserId |-> "u1", date |-> d, total_price |-> t,
      uploadTimestamp |-> 1, isVerifiedByUser |-> FALSE] :
        d \in {1, 2}, t \in {1000, 550, BadVal}}
    \cup {[telegramUserId |-> "a", groupId |-> "g1", date |-> d, total_price |-> t,
           uploadTimestamp |-> 1, isVerifiedByUser |-> FALSE] :
             d \in {1, 2}, t \in {1000, 550, BadVal}}

\* closed date ranges [start, end]
AggRanges == {<<1, 1>>, <<1, 2>>, <<2, 2>>, <<0, 0>>}

\* a direct call of one of the group functions: word is the function's name,
\* from the acting user (or the user the call is about), args its arguments
GroupCall(word, u, args) ==
    [from |-> u, kind |-> "call", word |-> word, id |-> "", args |-> args,
     lines |-> <<>>, attach |-> "none", llm |-> NoLLM, json |-> NoLLM]

\* the users of the group calls (u3 has no profile), the names and the
\* initial member lists given to create_group_in_firestore
GroupUsers == {"a", "u1", "u2"}
GroupNames == {"Family", " "}
InitialMembers == {<<>>, <<"u1">>, <<"u1", "u2">>, <<"a", "u2", "u2">>, <<"u3">>}

\* edit texts
Kv(key, val) == [t |-> "kv", key |-> key, val |-> val, parts |-> <<>>]
Item(parts) == [t |-> "item", key |-> "", val |-> "", parts |-> parts]
EditFull(r) == <<Kv("Ref", r), Kv("Store", "Bakery Lane"), Kv("Date", "2023-01-01"),
                 Kv("Total", "5.5"), Kv("Currency", "USD"),
                 Item(<<"Bread", "2", "Bakery", "2", "pack">>)>>
EditTotal(r) == <<Kv("Ref", r), Kv("Total", "12")>>
EditBadTotal(r) == <<Kv("Ref", r), Kv("Total", "abc")>>
EditBadItem(r) == <<Kv("Ref", r), Item(<<"Bread", "abc", "Bakery">>)>>
EditShortItem(r) == <<Kv("Ref", r), Item(<<"Bread", "2">>)>>
EditBadDate(r) == <<Kv("Ref", r), Kv("Date", "01/02/2023"),
                    Item(<<"Bread", "2", "Bakery">>)>>
EditNoRef == <<Kv("Total", "12")>>
\* the texts that are malformed: no Ref line, a header value that does not
\* parse, an item line with too few parts or with a price that is no number
MalformedTexts ==
    {EditNoRef, EditShortItem(ReceiptIdOf[1]), EditBadDate(ReceiptIdOf[1])}
    \cup UNION {{EditBadTotal(r), EditBadItem(r)} : r \in ReceiptIds}
EditTexts == MalformedTexts \cup UNION {{EditFull(r), EditTotal(r)} : r \in ReceiptIds}

\* JSON edit payloads: a full replacement that also carries metadata fields
\* of its own, an object with a store name only, a non-object, a syntax error
Bread == [item_name |-> "Bread", item_price |-> 200, grocery_category |-> "Bakery",
          quantity |-> 200, unit_of_measurement |-> "pack", price_per_unit |-> 100]
JsonFull == [store_name |-> "Bakery Lane", date |-> 0, total_price |-> 550,
             currency_code |-> "USD", items |-> <<Bread>>, telegramUserId |-> "u2",
             uploadTimestamp |-> 0, groupId |-> "g1", isVerifiedByUser |-> FALSE,
             editedBy |-> "a"]
JsonBare == [store_name |-> "Kiosk"]
JsonTexts == {[kind |-> "object", d |-> JsonFull], [kind |-> "object", d |-> JsonBare],
              [kind |-> "not_object"], [kind |-> "malformed"]}

AdminTexts(u) ==
    {Message(u, "/approveuser", <<"u1">>), Message(u, "/approveuser", <<"u2">>),
     Message(u, "/banuser", <<"u1">>),
     Message(u, "/setuserstatus", <<"a", "banned">>),
     Message(u, "/setuserstatus", <<"u2", "pending_approval">>),
     Message(u, "/admincreategroup", <<"Family", "u1", "u2">>),
     Message(u, "/admincreategroup", <<"Family", "a", "u1", "u1">>),
     Message(u, "/admincreategroup", <<"Family">>),
     Message(u, "/addusertogroup", <<"u1", "g1">>),
     Message(u, "/removeuserfromgroup", <<"u1", "g1">>),
     Message(u, "/removeuserfromgroup", <<"u2", "g1">>),
     Message(u, "/deletegroup", <<"g1">>),
     Message(u, "/adminhelp", <<>>),
     Callback(u, "admin_menu", ""),
     TextAndAttachment(u, "/adminhelp", "photo", [kind |-> "object", d |-> DraftFull])}

UserTexts(u) ==
    {Message(u, "/start", <<>>), Message(u, "/menu", <<>>), Callback(u, "main_menu", ""),
     Callback(u, "mygroup_info_action", ""), Callback(u, "leavegroup_action_user", ""),
     Callback(u, "summary_current_month", ""),
     Message(u, "/listreceipts", <<>>), Message(u, "/deletereceipts", <<>>),
     Message(u, "/creategroup", <<>>), Message(u, "/foo", <<>>),
     Message(u, "hello", <<>>), Callback(u, "stale_button", ""),
     Message(u, "/edit", <<>>),
     Message(u, "/mygroup", <<>>), Message(u, "/leavegroup", <<>>),
     Message(u, "/edithelp", <<>>),
     Message(u, "/daterange", <<"2024-06-15", "2024-06-16">>)}
    \cup {Callback(u, w, r) : w \in {"view_receipt_", "del_confirm_req_", "del_do_",
                                     "del_cancel_"}, r \in ReceiptIds}
    \cup {EditMessage(u, x) : x \in EditTexts}
    \cup {Attachment(u, "photo", x) : x \in Extractions}
    \cup {Attachment(u, "image_doc", [kind |-> "object", d |-> DraftFull]),
          Attachment(u, "other_doc", NoLLM),
          TextAndAttachment(u, "/listreceipts", "photo",
                            [kind |-> "object", d |-> DraftFull]),
          TextAndAttachment(u, "/listreceipts", "other_doc", NoLLM)}

NoEvent == Message(None, "", <<>>)

\* requests that are turned away before any update is handled
BadRequests == {[NoEvent EXCEPT !.kind = k] : k \in {"not_post", "bad_json", "no_sender"}}

Events == UNION {AdminTexts(u) \cup UserTexts(u) : u \in Users} \cup BadRequests

\* the updates that can write to the store: the tokens whose handlers write
\* profiles, groups or receipts, and the uploads
StoreWords == {"/start", "/approveuser", "/banuser", "/setuserstatus",
               "/admincreategroup", "/removeuserfromgroup", "/deletegroup",
               "leavegroup_action_user", "mygroup_info_action", "/edit", "del_do_"}
StoreEvents == {ev \in Events : ev.word \in StoreWords \/ ev.attach # "none"}

-----------------------------------------------------------------------------
(* Specification *)

\* no invocation is running
\* report: the count and the sum of a direct call of _aggregate_spending
NoReport == [receipt_count |-> 0, total_spent |-> 0]

Idle == [ev |-> NoEvent, welcome |-> 0, sent |-> 0, edited |-> 0,
         crashed |-> FALSE, http |-> 200, llm_called |-> FALSE,
         suppressed |-> FALSE, msg |-> "", report |-> NoReport]

Init ==
    /\ ADMIN_USER_ID \in AdminIds
    /\ profiles = EmptyDict
    /\ groups = EmptyDict
    /\ receipts = EmptyDict
    /\ nextGroup = 0
    /\ nextReceipt = 0
    /\ now = 1
    /\ handled = 0
    /\ call = Idle
    /\ running = EmptyDict

\* the response to a request that carries no usable update
RejectStatus(kind) == IF kind = "not_post" THEN 405 ELSE 400

\* telegram_webhook: one inbound request handled from start to finish.  A
\* request that is not a POST, or whose body is not an update with a sender,
\* is answered 405 or 400 and nothing else happens.  Otherwise the profile is
\* ensured, the rest of the handler runs on the result, and call records the
\* update and what the handler did for it; an exception that leaves the
\* handler makes the response a 500, otherwise it is 200 OK.
TelegramWebhook(ev) ==
    /\ call = Idle
    /\ handled < MaxEvents
    /\ ev.word = "/admincreategroup" => nextGroup < MaxGroups
    /\ ev.attach \in {"photo", "image_doc"} => nextReceipt < MaxReceipts
    /\ IF ev.kind \notin {"message", "callback"}
       THEN /\ call' = [Idle EXCEPT !.ev = ev, !.http = RejectStatus(ev.kind)]
            /\ UNCHANGED <<profiles, groups, receipts, nextGroup, nextReceipt>>
       ELSE
       \E user_profile \in {ensure_user_profile_exists(DB, ev.from)} :
       \E r \in {Dispatch(user_profile.db, ev,
                          Get(user_profile.profile, "status", "pending_approval"),
                          now)} :
          /\ profiles' = r.db.profiles
          /\ groups' = r.db.groups
          /\ receipts' = r.db.receipts
          /\ nextGroup' = r.db.nextGroup
          /\ nextReceipt' = r.db.nextReceipt
          /\ call' = [ev |-> ev, welcome |-> user_profile.welcome, sent |-> r.sent,
                      edited |-> r.edited, crashed |-> r.crashed,
                      http |-> IF r.crashed THEN 500 ELSE 200,
                      llm_called |-> r.llm_called, suppressed |-> r.suppressed,
                      msg |-> r.msg, report |-> NoReport]
    /\ handled' = handled + 1
    /\ UNCHANGED <<ADMIN_USER_ID, now, running>>

\* the HTTP response has gone out and the invocation is over
Return ==
    /\ call # Idle
    /\ call' = Idle
    /\ UNCHANGED <<ADMIN_USER_ID, profiles, groups, receipts, nextGroup, nextReceipt,
                   now, handled, running>>

\* the server clock advances
Tick ==
    /\ call = Idle
    /\ now < MaxTime
    /\ now' = now + 1
    /\ UNCHANGED <<ADMIN_USER_ID, profiles, groups, receipts, nextGroup, nextReceipt,
                   handled, call, running>>

Next ==
    \/ \E ev \in Events : TelegramWebhook(ev)
    \/ Return
    \/ Tick

Spec == Init /\ [][Next]_vars

\* The receipt store driven through its operations alone: the updates that
\* can write to the store, and the JSON edit handler called on its own, as
\* the component operation edit(actor, id, replacement).
EditJson(u, id, json) ==
    /\ call = Idle
    /\ handled < MaxEvents
    /\ \E r \in {handle_edit_receipt_command(DB, u, id, json, now)} :
          /\ receipts' = r.db.receipts
          /\ call' = [Idle EXCEPT !.ev = JsonEditCall(u, id, json), !.msg = r.msg]
    /\ handled' = handled + 1
    /\ UNCHANGED <<ADMIN_USER_ID, profiles, groups, nextGroup, nextReceipt, now,
                   running>>

NextEdit ==
    \/ \E ev \in StoreEvents : TelegramWebhook(ev)
    \/ Return
    \/ Tick
    \/ \E u \in Users, id \in ReceiptIds, json \in JsonTexts : EditJson(u, id, json)

SpecEdit == Init /\ [][NextEdit]_vars

\* The webhook started on a store with a dangling reference, the state that
\* get_my_group_info tests for: the approved user u1 has a profile that
\* names group g1, and the document of g1 is not in the store any more.
InitHeal ==
    /\ ADMIN_USER_ID = "a"
    /\ profiles = [u \in Users |->
                     IF u = "u1"
                     THEN [telegramUserId |-> u, groupId |-> "g1",
                           status |-> "approved", groupJoinedAt |-> TRUE]
                     ELSE [telegramUserId |-> u, groupId |-> None,
                           status |-> "approved"]]
    /\ groups = EmptyDict
    /\ receipts = EmptyDict
    /\ nextGroup = 1
    /\ nextReceipt = 0
    /\ now = 1
    /\ handled = 0
    /\ call = Idle
    /\ running = EmptyDict

SpecHeal == InitHeal /\ [][Next]_vars

\* The group functions called directly, as the component operations
\* createGroup, leaveGroup, removeMember and deleteGroup.  Every user of
\* GroupUsers has a profile; u1 is approved and u2 is approved or pending.
InitGroup ==
    /\ ADMIN_USER_ID = "a"
    /\ \E st \in {"approved", "pending_approval"} :
          profiles = [u \in GroupUsers |->
                        [telegramUserId |-> u, groupId |-> None,
                         status |-> IF u = "u2" THEN st ELSE "approved"]]
    /\ groups = EmptyDict
    /\ receipts = EmptyDict
    /\ nextGroup = 0
    /\ nextReceipt = 0
    /\ now = 1
    /\ handled = 0
    /\ call = Idle
    /\ running = EmptyDict

\* what a group call leaves: the store it returns and its message
GroupCallDone(ev, r) ==
    /\ profiles' = r.db.profiles
    /\ groups' = r.db.groups
    /\ nextGroup' = r.db.nextGroup
    /\ call' = [Idle EXCEPT !.ev = ev, !.msg = r.msg]
    /\ UNCHANGED <<ADMIN_USER_ID, receipts, nextReceipt, now, handled, running>>

CreateGroup(actor, group_name_str, initial_member_ids) ==
    /\ call = Idle
    /\ nextGroup < MaxGroupDocs
    /\ \E r \in {create_group_in_firestore(DB, actor, group_name_str,
                                            initial_member_ids)} :
          GroupCallDone(GroupCall("create_group_in_firestore", actor,
                                  <<group_name_str>> \o initial_member_ids), r)

LeaveGroup(u) ==
    /\ call = Idle
    /\ \E r \in {user_leave_group(DB, u)} :
          GroupCallDone(GroupCall("user_leave_group", u, <<>>), r)

RemoveMember(u, g) ==
    /\ call = Idle
    /\ \E r \in {admin_remove_user_from_group(DB, u, g)} :
          GroupCallDone(GroupCall("admin_remove_user_from_group", ADMIN_USER_ID,
                                  <<u, g>>), r)

DeleteGroup(g) ==
    /\ call = Idle
    /\ \E r \in {admin_delete_group(DB, g)} :
          GroupCallDone(GroupCall("admin_delete_group", ADMIN_USER_ID, <<g>>), r)

SetUserStatus(u, new_status) ==
    /\ call = Idle
    /\ \E r \in {admin_set_user_status(DB, u, new_status)} :
          GroupCallDone(GroupCall("admin_set_user_status", ADMIN_USER_ID,
                                  <<u, new_status>>), r)

NextGroup ==
    \/ \E actor \in GroupUsers, n \in GroupNames, m \in InitialMembers :
          CreateGroup(actor, n, m)
    \/ \E u \in {"u1", "u2"}, st \in {"approved", "banned"} : SetUserStatus(u, st)
    \/ \E u \in GroupUsers : LeaveGroup(u)
    \/ \E u \in GroupUsers \cup {"u3"}, i \in 1..MaxGroupDocs :
          RemoveMember(u, GroupIdOf[i])
    \/ \E i \in 1..MaxGroupDocs : DeleteGroup(GroupIdOf[i])
    \/ Return

SpecGroup == InitGroup /\ [][NextGroup]_vars

\* The aggregation as a function of the store: the store is drawn from the
\* documents below, and _aggregate_spending is called on it in mode
\* total_by_date (as get_spending_by_date_range_for_user calls it) for a user
\* and a date range.
InitAgg ==
    /\ ADMIN_USER_ID = "a"
    /\ \E joined \in BOOLEAN :
          /\ profiles =
                [u \in Users |->
                    IF u = "u1" /\ joined
                    THEN [telegramUserId |-> u, groupId |-> "g1",
                          status |-> "approved", groupJoinedAt |-> TRUE]
                    ELSE [telegramUserId |-> u, groupId |-> None,
                          status |-> "approved"]]
          /\ groups = IF joined
                      THEN [g \in {"g1"} |-> [groupName |-> "Family", ownerId |-> "a",
                                              memberUserIds |-> <<"u1">>]]
                      ELSE EmptyDict
          /\ nextGroup = IF joined THEN 1 ELSE 0
    /\ \E n \in 0..MaxDocs :
          /\ receipts \in [{ReceiptIdOf[i] : i \in 1..n} -> AggReceipts]
          /\ nextReceipt = n
    /\ now = 1
    /\ handled = 0
    /\ call = Idle
    /\ running = EmptyDict

Aggregate(u, start_date_str, end_date_str) ==
    /\ call = Idle
    /\ \E r \in {_aggregate_spending(DB, u, start_date_str, end_date_str,
                                      "total_by_date")} :
          call' = [Idle EXCEPT !.ev = AggregateCall(u, start_date_str, end_date_str),
                               !.msg = r.msg,
                               !.report = [receipt_count |-> r.receipt_count,
                                           total_spent |-> r.total_spent]]
    /\ UNCHANGED <<ADMIN_USER_ID, profiles, groups, receipts, nextGroup, nextReceipt,
                   now, handled, running>>

NextAgg ==
    \/ \E u \in Users, range \in AggRanges : Aggregate(u, range[1], range[2])
    \/ Return

SpecAgg == InitAgg /\ [][NextAgg]_vars

\* The month wrappers as functions of their token.  A token is given as the
\* parts that month_year_str.split('-') yields; a part is the integer that
\* int() makes of it, or BadVal for a part on which int() raises ValueError.
\* A date is <<year, month, day>>.
MonthTokens ==
    {<<y, m>> : y \in {1900, 2000, 2023, 2024}, m \in 0..MaxMonthToken}
    \cup {<<2023>>, <<2023, 10, 5>>, <<BadVal, 10>>, <<2023, BadVal>>, <<>>}

\* the number of days of a month of the proleptic Gregorian calendar
DaysInMonth(year, month) ==
    IF month \in {4, 6, 9, 11} THEN 30
    ELSE IF month # 2 THEN 31
    ELSE IF (year % 4 = 0 /\ year % 100 # 0) \/ year % 400 = 0 THEN 29
    ELSE 28

\* datetime(year, month, 1) - timedelta(days=1)
DayBefore(year, month) ==
    IF month = 1 THEN <<year - 1, 12, 31>>
    ELSE <<year, month - 1, DaysInMonth(year, month - 1)>>

\* the body of get_spending_by_category_for_user, get_spending_by_store_for_user
\* and get_average_receipt_value_for_user up to the call of
\* _aggregate_spending: the range the aggregation is called with, or the
\* ValueError branch.  The unpacking raises ValueError unless there are two
\* parts, int() on a part that is no number, and datetime(year, month + 1, 1)
\* when month + 1 is no month.
MonthRange(parts) ==
    IF Len(parts) # 2 \/ \E i \in 1..Len(parts) : parts[i] = BadVal
    THEN [msg |-> "invalid_month", queried |-> FALSE]
    ELSE LET year == parts[1]
             month == parts[2]
         IN IF month = 12
            THEN [msg |-> "aggregated", queried |-> TRUE,
                  start_date |-> <<year, month, 1>>, end_date |-> <<year, 12, 31>>]
            ELSE IF month + 1 \notin 1..12
            THEN [msg |-> "invalid_month", queried |-> FALSE]
            ELSE [msg |-> "aggregated", queried |-> TRUE,
                  start_date |-> <<year, month, 1>>,
                  end_date |-> DayBefore(year, month + 1)]

\* one of the three wrappers is called with a token
MonthQuery(wrapper, parts) ==
    /\ call = Idle
    /\ \E r \in {MonthRange(parts)} :
          call' = [Idle EXCEPT !.ev = GroupCall(wrapper, None, parts),
                               !.msg = r.msg, !.report = r]
    /\ UNCHANGED <<ADMIN_USER_ID, profiles, groups, receipts, nextGroup, nextReceipt,
                   now, handled, running>>

NextMonth ==
    \/ \E wrapper \in {"get_spending_by_category_for_user",
                       "get_spending_by_store_for_user",
                       "get_average_receipt_value_for_user"},
          parts \in MonthTokens : MonthQuery(wrapper, parts)
    \/ Return

SpecMonth == Init /\ [][NextMonth]_vars

\* Invocations of the receipt handlers that run side by side, each in its
\* own instance with the store as the only shared state.  An edit reads the
\* receipt (receipt_ref.get) and later overwrites it (receipt_ref.set); a
\* delete reads it and later deletes it.  Everything between the read and
\* the write is computed from what was read.
Editors == {"e1", "e2"}
Deleter == "d"
RaceActors == {"a", "u1"}
RaceTexts == {EditFull("r1"), EditTotal("r1"), EditBadItem("r1")}

\* the receipt the races are about: an upload of u1, a member of group g1
OriginalReceipt ==
    [store_name |-> "Example Supermarket", date |-> 1, total_price |-> 1000,
     currency_code |-> "ILS", items |-> <<Milk>>, telegramUserId |-> "u1",
     groupId |-> "g1", uploadTimestamp |-> 1, isVerifiedByUser |-> FALSE]

\* an invocation that has not started
Waiting == [pc |-> "idle", actor |-> None, text |-> <<>>, doc |-> None,
            payload |-> EmptyDict, msg |-> ""]

InitRace ==
    /\ ADMIN_USER_ID = "a"
    /\ profiles = [u \in Users |->
                     IF u = "u1"
                     THEN [telegramUserId |-> u, groupId |-> "g1",
                           status |-> "approved", groupJoinedAt |-> TRUE]
                     ELSE [telegramUserId |-> u, groupId |-> None,
                           status |-> "approved"]]
    /\ groups = [g \in {"g1"} |-> [groupName |-> "Family", ownerId |-> "a",
                                    memberUserIds |-> <<"u1">>]]
    /\ receipts = [r \in {"r1"} |-> OriginalReceipt]
    /\ nextGroup = 1
    /\ nextReceipt = 1
    /\ now = 2
    /\ handled = 0
    /\ call = Idle
    /\ running = [p \in Editors \cup {Deleter} |-> Waiting]

\* a write that leaves the stored items in place
SetDocument_KeepItems(docs, doc_id, update_payload) ==
    Put(docs, doc_id,
        IF doc_id \in DOMAIN docs /\ Has(docs[doc_id], "items")
        THEN Put(update_payload, "items", docs[doc_id]["items"])
        ELSE update_payload)

\* receipt_ref.set(update_payload): the document becomes the payload, and is
\* created when it does not exist
SetDocument(docs, doc_id, update_payload) == Put(docs, doc_id, update_payload)

\* handle_simple_edit_receipt_command up to the point where the payload is
\* complete: the receipt has been read, the text parsed, the sender authorized
EditRead(p, u, full_edit_text) ==
    /\ running[p].pc = "idle"
    /\ \E r \in {handle_simple_edit_receipt_command(DB, u, full_edit_text, now)} :
       \E doc_id_to_edit \in {parse_edited_receipt_text(full_edit_text).doc_id} :
          running' = [running EXCEPT ![p] =
                        IF r.msg = "updated"
                        THEN [pc |-> "write", actor |-> u, text |-> full_edit_text,
                              doc |-> doc_id_to_edit,
                              payload |-> r.db.receipts[doc_id_to_edit], msg |-> ""]
                        ELSE [Waiting EXCEPT !.pc = "done", !.actor = u,
                                             !.text = full_edit_text, !.msg = r.msg]]
    /\ UNCHANGED <<ADMIN_USER_ID, profiles, groups, receipts, nextGroup, nextReceipt,
                   now, handled, call>>

\* the write of the edit, and its return
EditWrite(p) ==
    /\ running[p].pc = "write"
    /\ receipts' = SetDocument(receipts, running[p].doc, running[p].payload)
    /\ running' = [running EXCEPT ![p].pc = "done", ![p].payload = EmptyDict,
                                  ![p].msg = "updated"]
    /\ UNCHANGED <<ADMIN_USER_ID, profiles, groups, nextGroup, nextReceipt, now,
                   handled, call>>

\* delete_receipt_from_firestore up to the authorization
DeleteRead(u, doc_id_to_delete) ==
    /\ running[Deleter].pc = "idle"
    /\ \E r \in {delete_receipt_from_firestore(DB, u, doc_id_to_delete)} :
          running' = [running EXCEPT ![Deleter] =
                        [Waiting EXCEPT
                            !.pc = IF r.msg = "deleted" THEN "write" ELSE "done",
                            !.actor = u, !.doc = doc_id_to_delete,
                            !.msg = IF r.msg = "deleted" THEN "" ELSE r.msg]]
    /\ UNCHANGED <<ADMIN_USER_ID, profiles, groups, receipts, nextGroup, nextReceipt,
                   now, handled, call>>

\* receipt_ref.delete(), and the return
DeleteWrite ==
    /\ running[Deleter].pc = "write"
    /\ receipts' = Pop(receipts, running[Deleter].doc)
    /\ running' = [running EXCEPT ![Deleter].pc = "done", ![Deleter].msg = "deleted"]
    /\ UNCHANGED <<ADMIN_USER_ID, profiles, groups, nextGroup, nextReceipt, now,
                   handled, call>>

NextRace ==
    \/ \E p \in Editors, u \in RaceActors, text \in RaceTexts : EditRead(p, u, text)
    \/ \E p \in Editors : EditWrite(p)
    \/ \E u \in RaceActors : DeleteRead(u, "r1")
    \/ DeleteWrite

SpecRace == InitRace /\ [][NextRace]_vars

\* Invocations that touch a profile side by side: the first updates of a
\* user, each of which ensures the profile (n1, n2), and the admin's status
\* commands (s1, s2).  ensure_user_profile_exists reads the profile and, when
\* there is none, later writes the new one with set; admin_set_user_status
\* reads the document and later updates its status.
InitJoin ==
    /\ ADMIN_USER_ID = "a"
    /\ profiles = EmptyDict
    /\ groups = EmptyDict
    /\ receipts = EmptyDict
    /\ nextGroup = 0
    /\ nextReceipt = 0
    /\ now = 1
    /\ handled = 0
    /\ call = Idle
    /\ running = [p \in {"n1", "n2", "s1", "s2"} |-> Waiting]

\* ensure_user_profile_exists up to the decision what to write
EnsureRead(p, user_id_str) ==
    /\ running[p].pc = "idle"
    /\ \E r \in {ensure_user_profile_exists(DB, user_id_str)} :
          running' = [running EXCEPT ![p] =
                        IF r.db = DB
                        THEN [Waiting EXCEPT !.pc = "done", !.actor = user_id_str]
                        ELSE [Waiting EXCEPT
                                 !.pc = "write", !.actor = user_id_str,
                                 !.doc = user_id_str, !.payload = r.profile,
                                 !.msg = IF ProfileExists(DB, user_id_str)
                                         THEN "update" ELSE "set"]]
    /\ UNCHANGED <<ADMIN_USER_ID, profiles, groups, receipts, nextGroup, nextReceipt,
                   now, handled, call>>

\* the write of ensure_user_profile_exists: set(new_profile_data) for a new
\* profile, update({'status': 'pending_approval'}) for one without status
EnsureWrite(p) ==
    /\ p \in {"n1", "n2"}
    /\ running[p].pc = "write"
    /\ profiles' = IF running[p].msg = "set"
                   THEN Put(profiles, running[p].doc, running[p].payload)
                   ELSE [profiles EXCEPT ![running[p].doc] =
                            Put(@, "status", "pending_approval")]
    /\ running' = [running EXCEPT ![p].pc = "done", ![p].payload = EmptyDict]
    /\ UNCHANGED <<ADMIN_USER_ID, groups, receipts, nextGroup, nextReceipt, now,
                   handled, call>>

\* admin_set_user_status up to the existence test
StatusRead(p, user_id_to_modify, new_status) ==
    /\ running[p].pc = "idle"
    /\ \E r \in {admin_set_user_status(DB, user_id_to_modify, new_status)} :
          running' = [running EXCEPT ![p] =
                        [Waiting EXCEPT
                            !.pc = IF r.msg = "status_set" THEN "write" ELSE "done",
                            !.actor = ADMIN_USER_ID, !.doc = user_id_to_modify,
                            !.text = <<new_status>>,
                            !.msg = IF r.msg = "status_set" THEN "" ELSE r.msg]]
    /\ UNCHANGED <<ADMIN_USER_ID, profiles, groups, receipts, nextGroup, nextReceipt,
                   now, handled, call>>

\* user_profile_ref.update({'status': new_status, ...})
StatusWrite(p) ==
    /\ p \in {"s1", "s2"}
    /\ running[p].pc = "write"
    /\ profiles' = [profiles EXCEPT ![running[p].doc] =
                       Put(@, "status", running[p].text[1])]
    /\ running' = [running EXCEPT ![p].pc = "done", ![p].msg = "status_set"]
    /\ UNCHANGED <<ADMIN_USER_ID, groups, receipts, nextGroup, nextReceipt, now,
                   handled, call>>

NextJoin ==
    \/ \E p \in {"n1", "n2"}, u \in {"u1", "a"} : EnsureRead(p, u)
    \/ \E p \in {"n1", "n2"} : EnsureWrite(p)
    \/ \E p \in {"s1", "s2"}, st \in {"approved", "banned", "pending_approval"} :
          StatusRead(p, "u1", st)
    \/ \E p \in {"s1", "s2"} : StatusWrite(p)

SpecJoin == InitJoin /\ [][NextJoin]_vars

\* what the edit of actor u with the given text makes of a receipt
EditOutcome(receipt, u, full_edit_text) ==
    handle_simple_edit_receipt_command(
        [DB EXCEPT !.receipts = Put(@, "r1", receipt)], u, full_edit_text,
        now).db.receipts["r1"]

-----------------------------------------------------------------------------
(* Properties *)

\* C1: an update from a sender who is not the admin and whose status is
\* pending_approval or banned (a sender without a profile gets one with
\* status pending_approval) leaves receipts and groups as they were, makes no
\* extraction call, and changes no profile except that it may create the
\* sender's own.
C1_StatusGating ==
    [][(/\ call = Idle /\ call' # Idle
        /\ call'.ev.kind # "call"
        /\ call'.ev.from # ADMIN_USER_ID
        /\ \/ call'.ev.from \notin DOMAIN profiles
           \/ Get(profiles[call'.ev.from], "status", "pending_approval")
                  \in {"pending_approval", "banned"})
       => /\ receipts' = receipts
          /\ groups' = groups
          /\ nextReceipt' = nextReceipt
          /\ nextGroup' = nextGroup
          /\ ~call'.llm_called
          /\ \A v \in DOMAIN profiles : v \in DOMAIN profiles' /\ profiles'[v] = profiles[v]
          /\ DOMAIN profiles' \subseteq DOMAIN profiles \cup {call'.ev.from}]_vars

\* a banned sender asks to delete a receipt they uploaded, and is held back
C1_Witness ==
    /\ call # Idle
    /\ call.suppressed
    /\ call.ev.word = "del_do_"
    /\ call.ev.id \in DOMAIN receipts
    /\ receipts[call.ev.id].telegramUserId = call.ev.from
    /\ profiles[call.ev.from].status = "banned"

\* C2: an update whose sender is not the configured admin changes no
\* profile's status, creates no group, removes no other user from a group
\* (neither from its member list nor from that user's profile) and deletes no
\* group that has another member.
C2_AdminOnlyPrivilege ==
    [][(call = Idle /\ call' # Idle /\ call'.ev.from # ADMIN_USER_ID)
       => /\ \A v \in DOMAIN profiles :
                /\ v \in DOMAIN profiles'
                /\ Get(profiles'[v], "status", None) = Get(profiles[v], "status", None)
          /\ DOMAIN groups' \subseteq DOMAIN groups
          /\ nextGroup' = nextGroup
          /\ \A g \in DOMAIN groups : \A v \in Users \ {call'.ev.from} :
                LET listed == v \in SeqToSet(groups[g].memberUserIds)
                    joined == v \in DOMAIN profiles
                              /\ Get(profiles[v], "groupId", None) = g
                IN /\ (g \in DOMAIN groups' /\ listed)
                         => v \in SeqToSet(groups'[g].memberUserIds)
                   /\ joined => Get(profiles'[v], "groupId", None) = g
                   /\ g \notin DOMAIN groups' => (~listed /\ ~joined)]_vars

\* an approved user who is not the admin sends /deletegroup for a group that
\* exists and has members
C2_Witness ==
    /\ call # Idle
    /\ call.ev.word = "/deletegroup"
    /\ call.ev.from # ADMIN_USER_ID
    /\ ADMIN_USER_ID # NoAdmin
    /\ ~call.suppressed
    /\ call.ev.args[1] \in DOMAIN groups
    /\ groups[call.ev.args[1]].memberUserIds # <<>>

\* C3: the configured admin counts as approved and an update from the admin
\* never takes the pending/banned branch, whatever status the admin's
\* profile holds.
C3_AdminExempt ==
    /\ ADMIN_USER_ID # NoAdmin => is_user_approved(DB, ADMIN_USER_ID)
    /\ (call # Idle /\ call.ev.from = ADMIN_USER_ID) => ~call.suppressed

\* the admin, whose profile says banned, asks for the main menu and gets it
C3_Witness ==
    /\ call # Idle
    /\ call.ev.from = ADMIN_USER_ID
    /\ ADMIN_USER_ID \in DOMAIN profiles
    /\ profiles[ADMIN_USER_ID].status = "banned"
    /\ call.msg = "main_menu"
    /\ call.sent = 1

\* C4: every update handled by the webhook gets exactly one reply: the
\* messages sent (the pending notice of a new profile included) and the
\* messages edited add up to one.
C4_ExactlyOneReply ==
    (call # Idle /\ call.ev.kind # "call")
        => call.welcome + call.sent + call.edited = 1

\* C5: when an exception escapes a handler, the update still ends with a
\* reply and HTTP 200.
C5_ExceptionBecomesApology ==
    (call # Idle /\ call.crashed) => (call.http = 200 /\ call.sent + call.edited >= 1)

\* C6 as stated: a sender who is not the admin, not the uploader and not a
\* member of the receipt's group, whose edit or delete of an existing receipt
\* reaches the handler, gets the authorization failure and the receipt is
\* unchanged.
C6_AlwaysAuthorizationFailure ==
    [][\A r \in DOMAIN receipts :
          (/\ call = Idle /\ call' # Idle
           /\ ~call'.suppressed
           /\ \/ call'.ev.word = "del_do_" /\ call'.ev.id = r
              \/ call'.ev.kind = "call" /\ call'.ev.id = r
              \/ /\ call'.ev.word = "/edit"
                 /\ call'.ev.lines # <<>>
                 /\ parse_edited_receipt_text(call'.ev.lines).doc_id = r
           /\ call'.ev.from # ADMIN_USER_ID
           /\ Get(receipts[r], "telegramUserId", None) # call'.ev.from
           /\ \/ ~Has(receipts[r], "groupId")
              \/ /\ get_user_group_id(DB, call'.ev.from) # receipts[r].groupId
                 /\ \/ receipts[r].groupId \notin DOMAIN groups
                    \/ call'.ev.from
                          \notin SeqToSet(groups[receipts[r].groupId].memberUserIds))
          => /\ call'.msg \in {"not_authorized", "not_approved"}
             /\ receipts' = receipts]_vars

\* C6 as amended: such an edit or delete never changes the receipt and always
\* fails; the failure is the authorization failure, except that an edit text
\* with a header error and no item lines, and malformed JSON in the JSON
\* form, are rejected with the parse error before the receipt is read.
C6_FailsWithoutMutation ==
    [][\A r \in DOMAIN receipts :
          (/\ call = Idle /\ call' # Idle
           /\ ~call'.suppressed
           /\ \/ call'.ev.word = "del_do_" /\ call'.ev.id = r
              \/ call'.ev.kind = "call" /\ call'.ev.id = r
              \/ /\ call'.ev.word = "/edit"
                 /\ call'.ev.lines # <<>>
                 /\ parse_edited_receipt_text(call'.ev.lines).doc_id = r
           /\ call'.ev.from # ADMIN_USER_ID
           /\ Get(receipts[r], "telegramUserId", None) # call'.ev.from
           /\ \/ ~Has(receipts[r], "groupId")
              \/ /\ get_user_group_id(DB, call'.ev.from) # receipts[r].groupId
                 /\ \/ receipts[r].groupId \notin DOMAIN groups
                    \/ call'.ev.from
                          \notin SeqToSet(groups[receipts[r].groupId].memberUserIds))
          => /\ receipts' = receipts
             /\ \/ call'.msg \in {"not_authorized", "not_approved"}
                \/ /\ call'.ev.word = "/edit"
                   /\ parse_edited_receipt_text(call'.ev.lines).parse_errors # <<>>
                   /\ parse_edited_receipt_text(call'.ev.lines).item_lines_raw = <<>>
                   /\ call'.msg = "parse_error_headers"
                \/ /\ call'.ev.kind = "call"
                   /\ call'.ev.json.kind = "malformed"
                   /\ call'.msg = "invalid_json"]_vars

\* an approved user without a group sends a well-formed edit of a receipt
\* that someone else uploaded outside any group, and is refused
C6_Witness ==
    /\ call # Idle
    /\ call.ev.word = "/edit"
    /\ call.msg = "not_authorized"
    /\ call.ev.from # ADMIN_USER_ID
    /\ get_user_group_id(DB, call.ev.from) = None
    /\ \E r \in DOMAIN receipts :
          /\ call.ev.lines = EditFull(r)
          /\ ~Has(receipts[r], "groupId")
          /\ receipts[r].telegramUserId # call.ev.from

\* C7: a receipt leaves the store only in a step that handles del_do_<id>
\* for that receipt, sent by the admin or by the receipt's uploader.
C7_DeleteOnlyByUploaderOrAdmin ==
    [][\A r \in DOMAIN receipts :
          r \notin DOMAIN receipts'
              => /\ call'.ev.word = "del_do_"
                 /\ call'.ev.id = r
                 /\ \/ call'.ev.from = ADMIN_USER_ID
                    \/ call'.ev.from = Get(receipts[r], "telegramUserId", None)]_vars

\* a member of the receipt's group who did not upload it sends del_do_ and
\* the receipt stays
C7_Witness ==
    /\ call # Idle
    /\ call.ev.word = "del_do_"
    /\ call.msg = "not_authorized"
    /\ call.ev.id \in DOMAIN receipts
    /\ Has(receipts[call.ev.id], "groupId")
    /\ get_user_group_id(DB, call.ev.from) = receipts[call.ev.id].groupId

\* C8: after an edit that succeeds, the stored receipt has the header fields
\* and the items of the replacement data, the uploader and upload time it
\* had before, isVerifiedByUser true and editedBy the sender.
C8_EditRoundTrip ==
    [][(call = Idle /\ call' # Idle /\ call'.msg = "updated")
       => LET ev == call'.ev
              parsed == parse_edited_receipt_text(ev.lines)
              r == IF ev.kind = "call" THEN ev.id ELSE parsed.doc_id
              X == IF ev.kind = "call"
                   THEN Put(ev.json.d, "items", Get(ev.json.d, "items", <<>>))
                   ELSE Put(parsed.header_data, "items",
                            ParseItemLines(parsed.item_lines_raw,
                                [parsed_items |-> <<>>,
                                 item_parse_errors |-> <<>>]).parsed_items)
          IN /\ r \in DOMAIN receipts /\ r \in DOMAIN receipts'
             /\ \A k \in DOMAIN X \cap {"store_name", "date", "total_price",
                                        "currency_code", "items"} :
                   k \in DOMAIN receipts'[r] /\ receipts'[r][k] = X[k]
             /\ ev.lines = EditFull(r)
                   => /\ receipts'[r].store_name = "Bakery Lane"
                      /\ receipts'[r].date = 0
                      /\ receipts'[r].total_price = 550
                      /\ receipts'[r].currency_code = "USD"
                      /\ receipts'[r].items = <<Bread>>
             /\ Get(receipts'[r], "telegramUserId", None)
                   = Get(receipts[r], "telegramUserId", None)
             /\ Get(receipts'[r], "uploadTimestamp", NullVal)
                   = Get(receipts[r], "uploadTimestamp", NullVal)
             /\ Get(receipts'[r], "isVerifiedByUser", FALSE) = TRUE
             /\ Get(receipts'[r], "editedBy", None) = ev.from]_vars

\* the admin's full edit of a receipt uploaded by someone else has succeeded
C8_Witness ==
    /\ call # Idle
    /\ call.msg = "updated"
    /\ call.ev.word = "/edit"
    /\ \E r \in DOMAIN receipts :
          /\ call.ev.lines = EditFull(r)
          /\ receipts[r].telegramUserId # call.ev.from
          /\ receipts[r].editedBy = call.ev.from
          /\ receipts[r].store_name = "Bakery Lane"

\* C9: no step changes the telegramUserId, the uploadTimestamp or the groupId
\* (its presence and its value) of a receipt that stays in the store.
C9_UploadMetadataFrozen ==
    [][\A r \in DOMAIN receipts \cap DOMAIN receipts' :
          /\ Get(receipts'[r], "telegramUserId", None)
                = Get(receipts[r], "telegramUserId", None)
          /\ Get(receipts'[r], "uploadTimestamp", NullVal)
                = Get(receipts[r], "uploadTimestamp", NullVal)
          /\ Has(receipts'[r], "groupId") = Has(receipts[r], "groupId")
          /\ Get(receipts'[r], "groupId", None) = Get(receipts[r], "groupId", None)]_vars

\* a JSON edit whose payload names another uploader, another upload time and
\* a group has succeeded on a receipt that has no group
C9_Witness ==
    /\ call # Idle
    /\ call.msg = "updated"
    /\ call.ev.kind = "call"
    /\ call.ev.json.kind = "object"
    /\ call.ev.json.d = JsonFull
    /\ call.ev.id \in DOMAIN receipts
    /\ receipts[call.ev.id].telegramUserId # JsonFull.telegramUserId
    /\ receipts[call.ev.id].uploadTimestamp # JsonFull.uploadTimestamp
    /\ ~Has(receipts[call.ev.id], "groupId")
    /\ receipts[call.ev.id].store_name = JsonFull.store_name

\* C10: every receipt the image branch saves has date equal to the date of
\* the clock at that step, whatever date the extraction proposed.
C10_UploadDateIsToday ==
    [][\A r \in DOMAIN receipts' \ DOMAIN receipts :
          Get(receipts'[r], "date", BadVal) = TodaysDate(now)]_vars

\* an extraction that proposed another date has been saved with today's date
C10_Witness ==
    /\ call # Idle
    /\ call.ev.attach = "photo"
    /\ call.ev.llm.kind = "object"
    /\ Has(call.ev.llm.d, "date")
    /\ \E r \in DOMAIN receipts :
          /\ receipts[r].uploadTimestamp = now
          /\ receipts[r].date # call.ev.llm.d.date
          /\ receipts[r].date = TodaysDate(now)

C12_ExtractionFailureSavesNothing ==
    [][(/\ call = Idle /\ call' # Idle
        /\ call'.ev.attach \in {"photo", "image_doc"}
        /\ call'.llm_called
        /\ call'.ev.llm.kind = "value_error")
       => /\ receipts' = receipts
          /\ nextReceipt' = nextReceipt
          /\ call'.msg = "processing_error"
          /\ call'.sent >= 1
          /\ ~call'.crashed
          /\ call'.http = 200]_vars

\* an approved user's photo whose extraction failed has been answered with the
\* processing error, and the store holds no receipt
C12_Witness ==
    /\ call # Idle
    /\ call.ev.attach = "photo"
    /\ call.ev.llm.kind = "value_error"
    /\ call.llm_called
    /\ call.msg = "processing_error"
    /\ nextReceipt = 0
    /\ receipts = EmptyDict

\* C13: after every step, no group's memberUserIds lists a user id twice, and
\* no step leaves in the store a group whose member list it has taken from
\* non-empty to empty: the leave or remove that empties a group deletes it.
C13_NoDuplicatesAndEmptiedDeleted ==
    [][/\ \A g \in DOMAIN groups' :
             Cardinality(SeqToSet(groups'[g].memberUserIds))
                = Len(groups'[g].memberUserIds)
       /\ \A g \in DOMAIN groups \cap DOMAIN groups' :
             groups[g].memberUserIds # <<>> => groups'[g].memberUserIds # <<>>
       /\ (/\ call = Idle /\ call' # Idle
           /\ call'.msg \in {"left_group_deleted", "removed_group_deleted"})
          => \E g \in DOMAIN groups \ DOMAIN groups' :
                ArrayRemove(groups[g].memberUserIds,
                            IF call'.ev.word = "/removeuserfromgroup"
                            THEN call'.ev.args[1] ELSE call'.ev.from) = <<>>]_vars

\* the last member of the only group has left, and the group is gone
C13_Witness ==
    /\ call # Idle
    /\ call.ev.word = "leavegroup_action_user"
    /\ call.msg = "left_group_deleted"
    /\ nextGroup = 1
    /\ groups = EmptyDict

\* C14: no group document with an empty member list exists in the store,
\* whatever operation produced the state (an administrator's create with no
\* members, or with members that were all filtered out, included).
C14_NoEmptyGroup ==
    \A g \in DOMAIN groups : Get(groups[g], "memberUserIds", <<>>) # <<>>

\* C14 (amended): a group with an empty member list is in the store only as
\* the administrator created it.  A step that puts an empty group in the store
\* is an /admincreategroup of the administrator naming no user with an approved
\* profile; every other empty group was already there, empty, before the step.
C14_EmptyOnlyAsAdminCreated ==
    [][\A g \in DOMAIN groups' :
          groups'[g].memberUserIds = <<>>
          => \/ /\ g \in DOMAIN groups
                /\ groups[g].memberUserIds = <<>>
             \/ /\ g \notin DOMAIN groups
                /\ call = Idle /\ call' # Idle
                /\ call'.ev.word = "/admincreategroup"
                /\ call'.ev.from = ADMIN_USER_ID
                /\ \A i \in 2..Len(call'.ev.args) :
                      ~(/\ call'.ev.args[i] \in DOMAIN profiles'
                        /\ Get(profiles'[call'.ev.args[i]], "status", None)
                              = "approved")]_vars

\* the administrator has created a group naming a user whose profile is not
\* approved and a user who has no profile: the group is stored with no member
C14_Witness ==
    /\ call # Idle
    /\ call.ev.word = "/admincreategroup"
    /\ call.ev.args = <<"Family", "u1", "u2">>
    /\ "u1" \in DOMAIN profiles
    /\ \E g \in DOMAIN groups : groups[g].memberUserIds = <<>>

\* C15: in every state, each profile whose groupId is set names a group that
\* exists and whose memberUserIds contains the profile's user id.
C15_MembershipConsistent ==
    \A u \in DOMAIN profiles :
       Get(profiles[u], "groupId", None) # None
       => /\ Get(profiles[u], "groupId", None) \in DOMAIN groups
          /\ u \in SeqToSet(groups[Get(profiles[u], "groupId", None)].memberUserIds)

\* the administrator has removed one member from a group of two; the member
\* who stays has a profile that names the group, and the group lists them
C15_Witness ==
    /\ call # Idle
    /\ call.ev.word = "/removeuserfromgroup"
    /\ call.msg = "removed"
    /\ \E u \in DOMAIN profiles :
          /\ Get(profiles[u], "groupId", None) \in DOMAIN groups
          /\ u \in SeqToSet(groups[profiles[u].groupId].memberUserIds)
    /\ \E v \in DOMAIN profiles : Get(profiles[v], "groupId", None) = None

\* C16: ensure_user_profile_exists is idempotent.  Called twice in a row for
\* the same id, from the current store or from the store with the status
\* field taken off one profile (old data), the second call returns the status
\* and groupId the first returned, writes nothing, and the two calls together
\* send at most one pending-approval notice.  (Every store the model reaches
\* is the store of a state between two updates.)
C16_EnsureProfileIdempotent ==
    call = Idle =>
    \A u \in Users \cup {"u2"} :
       \A db \in {DB} \cup {[DB EXCEPT !.profiles[v] = Pop(@, "status")] :
                              v \in DOMAIN profiles} :
          \A first \in {ensure_user_profile_exists(db, u)} :
             \A second \in {ensure_user_profile_exists(first.db, u)} :
                /\ second.db = first.db
                /\ Get(second.profile, "status", None) = Get(first.profile, "status", None)
                /\ Get(second.profile, "groupId", None) = Get(first.profile, "groupId", None)
                /\ first.welcome + second.welcome <= 1

\* the webhook's call has just created the sender's profile and sent the
\* notice; a further call for the sender writes nothing and sends nothing
C16_Witness ==
    /\ call # Idle
    /\ call.welcome = 1
    /\ call.ev.from \in DOMAIN profiles
    /\ ensure_user_profile_exists(DB, call.ev.from).db = DB
    /\ ensure_user_profile_exists(DB, call.ev.from).welcome = 0
    /\ ensure_user_profile_exists(DB, call.ev.from).profile = profiles[call.ev.from]

\* C17: no step removes a profile document; a step that adds one is the
\* handling of an update sent by that same user, who had no profile before;
\* every update's sender has a profile afterwards; and the new profile's
\* status is approved when the user is the configured administrator and
\* pending_approval otherwise (for everybody when no administrator is
\* configured), unless the administrator's own first update is a command that
\* sets their own status.
C17_LazyProfileCreation ==
    [][/\ DOMAIN profiles \subseteq DOMAIN profiles'
       /\ (call = Idle /\ call' # Idle /\ call'.ev.kind \in {"message", "callback"})
          => call'.ev.from \in DOMAIN profiles'
       /\ \A u \in DOMAIN profiles' \ DOMAIN profiles :
             /\ call = Idle /\ call' # Idle
             /\ u = call'.ev.from
             /\ \/ profiles'[u].status = IF u = ADMIN_USER_ID THEN "approved"
                                         ELSE "pending_approval"
                \/ /\ u = ADMIN_USER_ID
                   /\ call'.ev.word \in {"/setuserstatus", "/approveuser", "/banuser"}
                   /\ Len(call'.ev.args) >= 1
                   /\ call'.ev.args[1] = u]_vars

\* with no administrator configured, the user whose id would otherwise be the
\* administrator's has sent a first update and has a pending profile, while an
\* earlier sender's profile is still in the store
C17_Witness ==
    /\ ADMIN_USER_ID = NoAdmin
    /\ call # Idle
    /\ call.ev.from = "a"
    /\ call.welcome = 1
    /\ DOMAIN profiles = {"a", "u1"}
    /\ profiles["a"].status = "pending_approval"

\* C18: for every user who was never added to a group (no profile, or a
\* profile on which groupJoinedAt was never written), the query target is the
\* personal one, and every receipt a listing or an aggregation for that user
\* reads was uploaded by that user and carries no groupId.
C18_NeverGroupedScopeIsPersonal ==
    \A u \in Users :
       (u \in DOMAIN profiles => ~Has(profiles[u], "groupJoinedAt"))
       => /\ get_query_target(DB, u) = [field |-> "telegramUserId", value |-> u]
          /\ \A id \in get_recent_receipts_for_user(DB, u)
                       \cup AggregationQuery(DB, get_query_target(DB, u).field,
                                             get_query_target(DB, u).value,
                                             NullVal, NullVal) :
                /\ Get(receipts[id], "telegramUserId", None) = u
                /\ ~Has(receipts[id], "groupId")

\* a user who was never in a group has uploaded a photo whose extraction
\* named a group; the receipt is in the user's listing and aggregation scope
C18_Witness ==
    /\ call # Idle
    /\ call.ev.attach = "photo"
    /\ call.ev.llm.kind = "object"
    /\ Has(call.ev.llm.d, "groupId")
    /\ ~Has(profiles[call.ev.from], "groupJoinedAt")
    /\ \E id \in get_recent_receipts_for_user(DB, call.ev.from) :
          /\ receipts[id].telegramUserId = call.ev.from
          /\ receipts[id].uploadTimestamp = now
          /\ id \in AggregationQuery(DB, "telegramUserId", call.ev.from, 1, 2)

\* C19: for every user whose profile has no groupId now (a user who left or
\* was removed from a group included), every receipt a listing or an
\* aggregation for that user reads was uploaded by that user and carries no
\* groupId.
C19_PersonalScopeExcludesGroupReceipts ==
    \A u \in DOMAIN profiles :
       Get(profiles[u], "groupId", None) = None
       => \A id \in get_recent_receipts_for_user(DB, u)
                    \cup AggregationQuery(DB, get_query_target(DB, u).field,
                                          get_query_target(DB, u).value,
                                          NullVal, NullVal) :
             /\ Get(receipts[id], "telegramUserId", None) = u
             /\ ~Has(receipts[id], "groupId")

\* C20: aggregation in mode total over the caller's scope and the closed range
\* [start, end].  The reported count is the number of receipts in scope, dated
\* within the range, whose total is a number; the reported sum is the sum of
\* their totals (it is 0 when there is none, and taking any one of them out of
\* the store lowers the sum by its total and the count by one); a receipt
\* whose total is not a number changes neither, and the call returns a report.
C20_TotalAggregation ==
    (call # Idle /\ call.ev.word = "_aggregate_spending")
    => \A target \in {get_query_target(DB, call.ev.from)} :
       \A counted \in
          {{id \in DOMAIN receipts :
               /\ Get(receipts[id], target.field, None) = target.value
               /\ receipts[id].date >= call.ev.args[1]
               /\ receipts[id].date <= call.ev.args[2]
               /\ Get(receipts[id], "total_price", NullVal) \in Nat}} :
          /\ call.report.receipt_count = Cardinality(counted)
          /\ call.msg = IF counted = {} THEN "no_receipts" ELSE "total"
          /\ counted = {} => call.report.total_spent = 0
          /\ \A id \in DOMAIN receipts :
                \A less \in {_aggregate_spending([DB EXCEPT !.receipts = Pop(@, id)],
                                                 call.ev.from, call.ev.args[1],
                                                 call.ev.args[2], "total_by_date")} :
                   IF id \in counted
                   THEN /\ call.report.total_spent
                              = less.total_spent + receipts[id].total_price
                        /\ call.report.receipt_count = less.receipt_count + 1
                   ELSE /\ call.report.total_spent = less.total_spent
                        /\ call.report.receipt_count = less.receipt_count

\* the example: three receipts in the caller's scope and in the range, with
\* totals 10.00, not-a-number and 5.50, are reported as 2 receipts and 15.50
C20_Witness ==
    /\ call # Idle
    /\ call.ev.word = "_aggregate_spending"
    /\ call.ev.from = "u1"
    /\ call.ev.args = <<1, 2>>
    /\ DOMAIN receipts = {"r1", "r2", "r3"}
    /\ \A id \in DOMAIN receipts : receipts[id].telegramUserId = "u1"
    /\ Get(profiles["u1"], "groupId", None) = None
    /\ receipts["r1"].total_price = 1000
    /\ receipts["r2"].total_price = BadVal
    /\ receipts["r3"].total_price = 550
    /\ call.msg = "total"
    /\ call.report = [receipt_count |-> 2, total_spent |-> 1550]

\* C21: after admin_delete_group(g) on a group that exists, the group
\* document g is gone, no profile has groupId g, every profile that did not
\* name g is as it was, and the other groups are as they were.
C21_DeleteGroupClearsMembers ==
    [][(/\ call = Idle /\ call' # Idle
        /\ call'.ev.word = "admin_delete_group"
        /\ call'.ev.args[1] \in DOMAIN groups)
       => /\ call'.ev.args[1] \notin DOMAIN groups'
          /\ DOMAIN groups' = DOMAIN groups \ {call'.ev.args[1]}
          /\ \A g \in DOMAIN groups' : groups'[g] = groups[g]
          /\ DOMAIN profiles' = DOMAIN profiles
          /\ \A u \in DOMAIN profiles' :
                /\ Get(profiles'[u], "groupId", None) # call'.ev.args[1]
                /\ Get(profiles[u], "groupId", None) # call'.ev.args[1]
                      => profiles'[u] = profiles[u]]_vars

\* group g1 has been deleted while group g2 exists: a former member of g1 has
\* no groupId any more, and a member of g2 still names g2
C21_Witness ==
    /\ call # Idle
    /\ call.ev.word = "admin_delete_group"
    /\ call.ev.args = <<"g1">>
    /\ call.msg = "group_deleted"
    /\ DOMAIN groups = {"g2"}
    /\ \E u \in DOMAIN profiles :
          Has(profiles[u], "groupJoinedAt") /\ ~Has(profiles[u], "groupId")
    /\ \E v \in DOMAIN profiles : Get(profiles[v], "groupId", None) = "g2"

\* C22: when the sender's profile names a group whose document does not
\* exist, an update that reads the sender's group (group info, leave group, a
\* summary, the receipt list, an image upload) leaves the profile with no
\* groupId, and a receipt it saves carries no groupId.
C22_DanglingReferenceHealed ==
    [][(/\ call = Idle /\ call' # Idle
        /\ call'.ev.kind \in {"message", "callback"}
        /\ call'.ev.from \in DOMAIN profiles
        /\ Get(profiles[call'.ev.from], "groupId", None) # None
        /\ Get(profiles[call'.ev.from], "groupId", None) \notin DOMAIN groups
        /\ ~call'.suppressed
        /\ \/ call'.ev.word \in {"mygroup_info_action", "leavegroup_action_user",
                                 "summary_current_month", "/daterange",
                                 "/listreceipts"}
           \/ call'.ev.attach \in {"photo", "image_doc"})
       => /\ Get(profiles'[call'.ev.from], "groupId", None) = None
          /\ \A r \in DOMAIN receipts' \ DOMAIN receipts :
                ~Has(receipts'[r], "groupId")]_vars

\* C23: the HTTP status of the response depends on the shape of the request
\* alone: 405 for a request that is not a POST, 400 for a POST whose body is
\* not an update with a sender, and 200 for every update, whatever its
\* handling did.
C23_StatusFromRequestShape ==
    (call # Idle /\ call.ev.kind # "call")
    => call.http = IF call.ev.kind = "not_post" THEN 405
                   ELSE IF call.ev.kind \in {"bad_json", "no_sender"} THEN 400
                   ELSE 200

\* C24: when the admin sends /start, /menu or presses the main_menu button,
\* the admin block does not consume the event and the admin receives the
\* main menu.
C24_AdminGetsMainMenu ==
    (/\ call # Idle
     /\ call.ev.from = ADMIN_USER_ID
     /\ call.ev.attach = "none"
     /\ \/ call.ev.kind = "message" /\ call.ev.word \in {"/start", "/menu"}
        \/ call.ev.kind = "callback" /\ call.ev.word = "main_menu")
    => (call.sent = 1 /\ call.msg = "main_menu")

\* C25: every command of the public command menu, sent as a text message by
\* an approved sender, is answered by its handler: the main menu for /start
\* and /menu, the receipt list for /listreceipts, the delete list for
\* /deletereceipts, the edit help for /edithelp, the date-range sum for
\* /daterange with two dates, a reply for /mygroup and /leavegroup.
C25_PublicCommandsHandled ==
    (/\ call # Idle
     /\ call.ev.kind = "message"
     /\ call.ev.attach = "none"
     /\ call.ev.lines = <<>>
     /\ ~call.crashed
     /\ call.ev.from \in DOMAIN profiles
     /\ Get(profiles[call.ev.from], "status", "pending_approval") = "approved"
     /\ call.ev.word \in {"/start", "/menu", "/listreceipts", "/deletereceipts",
                          "/mygroup", "/leavegroup", "/edithelp", "/daterange"})
    => /\ call.sent >= 1
       /\ call.ev.word \in {"/start", "/menu"} => call.msg = "main_menu"
       /\ call.ev.word = "/listreceipts" => call.msg = "receipt_list"
       /\ call.ev.word = "/deletereceipts" => call.msg = "delete_list"
       /\ call.ev.word = "/daterange" => call.msg = "summary"

\* C26: a sender who is not the admin and whose profile existed before the
\* event with status pending_approval gets no reply to /start and the pending
\* notice, once, to every other event.
C26_PendingReplyPolicy ==
    (/\ call # Idle
     /\ call.ev.kind \in {"message", "callback"}
     /\ call.ev.from # ADMIN_USER_ID
     /\ call.welcome = 0
     /\ call.ev.from \in DOMAIN profiles
     /\ Get(profiles[call.ev.from], "status", "pending_approval") = "pending_approval")
    => IF call.ev.kind = "message" /\ call.ev.word = "/start"
       THEN call.sent = 0
       ELSE call.sent = 1 /\ call.msg = "restricted"

\* C27: for a sender who is not held back and attaches nothing, a typed token
\* that no handler matches (/foo) is answered with the "didn't understand"
\* notice, and a button token that no handler matches is answered with
\* nothing.
C27_UnmatchedToken ==
    (/\ call # Idle
     /\ ~call.suppressed
     /\ call.ev.attach = "none"
     /\ call.ev.word \in {"/foo", "stale_button"})
    => IF call.ev.kind = "message"
       THEN call.sent = 1 /\ call.msg = "not_understood"
       ELSE call.sent = 0

\* the replies that only the image branch sends
PipelineReplies == {"receipt_shown", "image_error", "processing_error"}

\* C28 as stated: for every sender who is not held back, a photo or an image
\* document goes to the extraction (acknowledgement and result, two messages,
\* no reply of a token handler), and any other document is answered with the
\* rejection notice, is never extracted and saves nothing.
C28_ImageAlwaysFirst ==
    [][(/\ call = Idle /\ call' # Idle
        /\ call'.ev.kind = "message"
        /\ ~call'.suppressed)
       => /\ call'.ev.attach \in {"photo", "image_doc"}
             => (call'.sent = 2 /\ call'.msg \in PipelineReplies)
          /\ call'.ev.attach = "other_doc"
             => /\ call'.sent >= 1
                /\ ~call'.llm_called
                /\ call'.msg \notin PipelineReplies
                /\ receipts' = receipts]_vars

\* C28: the same, for every event that the admin block has not consumed:
\* an admin token in the text of the admin's message is executed first and
\* ends the event, image or not.
C28_ImageFirstAfterAdminBlock ==
    [][(/\ call = Idle /\ call' # Idle
        /\ call'.ev.kind = "message"
        /\ ~call'.suppressed
        /\ ~(/\ is_user_admin(call'.ev.from)
             /\ CommandAction(call'.ev).w \in AdminTokens))
       => /\ call'.ev.attach \in {"photo", "image_doc"}
             => (call'.sent = 2 /\ call'.msg \in PipelineReplies)
          /\ call'.ev.attach = "other_doc"
             => /\ call'.sent >= 1
                /\ ~call'.llm_called
                /\ call'.msg \notin PipelineReplies
                /\ receipts' = receipts]_vars

\* a photo sent together with the text /listreceipts has been extracted and
\* shown, and no list was sent
C28_Witness ==
    /\ call # Idle
    /\ call.ev.attach = "photo" /\ call.ev.word = "/listreceipts"
    /\ ~call.suppressed
    /\ call.msg = "receipt_shown" /\ call.sent = 2

\* C29: create_group_in_firestore writes nothing when the name is blank, or
\* when the actor is not the admin and is not approved or already has a
\* groupId; for an actor who is not the admin, is approved and has no groupId
\* it adds one group whose only member is the actor, and the actor's profile
\* names that group.
C29_CreateGroupPreconditions ==
    [][(/\ call = Idle /\ call' # Idle
        /\ call'.ev.word = "create_group_in_firestore")
       => \A actor \in {call'.ev.from} :
             IF \/ call'.ev.args[1] \in {"", " "}
                \/ /\ actor # ADMIN_USER_ID
                   /\ \/ Get(profiles[actor], "status", None) # "approved"
                      \/ Get(profiles[actor], "groupId", None) # None
             THEN /\ profiles' = profiles
                  /\ groups' = groups
                  /\ nextGroup' = nextGroup
             ELSE actor # ADMIN_USER_ID
                  => \E g \in DOMAIN groups' \ DOMAIN groups :
                        /\ DOMAIN groups' = DOMAIN groups \cup {g}
                        /\ groups'[g].memberUserIds = <<actor>>
                        /\ Get(profiles'[actor], "groupId", None) = g
                        /\ \A u \in DOMAIN profiles \ {actor} :
                              profiles'[u] = profiles[u]]_vars

\* u1 has created a group of its own and its second call has been refused
C29_Witness ==
    /\ call # Idle
    /\ call.ev.word = "create_group_in_firestore"
    /\ call.ev.from = "u1"
    /\ call.msg = "already_in_group"
    /\ \E g \in DOMAIN groups :
          /\ groups[g].ownerId = "u1"
          /\ groups[g].memberUserIds = <<"u1">>
          /\ Get(profiles["u1"], "groupId", None) = g
          /\ DOMAIN groups = {g}

\* the supplied ids whose profile exists with status approved
SuppliedApproved(profs, ids) ==
    {u \in SeqToSet(ids) : u \in DOMAIN profs
                           /\ Get(profs[u], "status", None) = "approved"}

\* a profile without the two fields of the membership
WithoutMembership(profile) == Pop(Pop(profile, "groupId"), "groupJoinedAt")

C31_LeaveGroupThreeCases ==
    [][(/\ call = Idle /\ call' # Idle
        /\ call'.ev.word = "user_leave_group")
       => \A u \in {call'.ev.from} : \A g \in {Get(profiles[u], "groupId", None)} :
             IF u = ADMIN_USER_ID
             THEN /\ call'.msg = "for_regular_users"
                  /\ profiles' = profiles /\ groups' = groups
             ELSE IF g = None
             THEN /\ call'.msg = "not_in_group"
                  /\ profiles' = profiles /\ groups' = groups
             ELSE /\ ~Has(profiles'[u], "groupId")
                  /\ g \in DOMAIN groups'
                        => u \notin SeqToSet(groups'[g].memberUserIds)]_vars

\* C31: the same, with the refusal extended to every user whose status is
\* not approved, whether the profile names a group or not.
C31_LeaveGroupRefusesUnapproved ==
    [][(/\ call = Idle /\ call' # Idle
        /\ call'.ev.word = "user_leave_group")
       => \A u \in {call'.ev.from} : \A g \in {Get(profiles[u], "groupId", None)} :
             IF u = ADMIN_USER_ID \/ Get(profiles[u], "status", None) # "approved"
             THEN /\ call'.msg = "for_regular_users"
                  /\ profiles' = profiles /\ groups' = groups
             ELSE IF g = None
             THEN /\ call'.msg = "not_in_group"
                  /\ profiles' = profiles /\ groups' = groups
             ELSE /\ ~Has(profiles'[u], "groupId")
                  /\ g \in DOMAIN groups'
                        => u \notin SeqToSet(groups'[g].memberUserIds)
                  /\ \A v \in DOMAIN profiles \ {u} : profiles'[v] = profiles[v]]_vars

\* u1 has left a group that u2 is still a member of
C31_Witness ==
    /\ call # Idle
    /\ call.ev.word = "user_leave_group"
    /\ call.ev.from = "u1"
    /\ call.msg = "left_group"
    /\ ~Has(profiles["u1"], "groupId")
    /\ \E g \in DOMAIN groups :
          /\ groups[g].memberUserIds = <<"u2">>
          /\ Get(profiles["u2"], "groupId", None) = g

\* C32: when a sender who is not permitted to act on an existing receipt
\* asks to view, edit or delete it, the reply is the reply the same request
\* gets when no receipt with that id exists.
C32_DenialHidesExistence ==
    [][\A r \in DOMAIN receipts :
          (/\ call = Idle /\ call' # Idle
           /\ call'.ev.kind \in {"message", "callback"}
           /\ ~call'.suppressed
           /\ call'.ev.from # ADMIN_USER_ID
           /\ \/ /\ call'.ev.word \in {"view_receipt_", "del_confirm_req_", "del_do_"}
                 /\ call'.ev.id = r
              \/ /\ call'.ev.word = "/edit"
                 /\ call'.ev.lines # <<>>
                 /\ parse_edited_receipt_text(call'.ev.lines).doc_id = r
           /\ IF call'.ev.word \in {"del_confirm_req_", "del_do_"}
              THEN ~MayDelete(DB, call'.ev.from, receipts[r])
              ELSE ~MayEditOrView(DB, call'.ev.from, receipts[r]))
          => call'.msg = Dispatch([DB EXCEPT !.receipts = Pop(@, r)], call'.ev,
                                  "approved", now).msg]_vars

\* C33: every stored receipt has an items field, whether it was saved by an
\* upload or last written by an edit.
C33_ItemsAlwaysPresent ==
    \A r \in DOMAIN receipts : Has(receipts[r], "items")

\* C34: when two edits of the same receipt that run side by side have both
\* written, the receipt is the whole result of one of them, computed from the
\* original receipt or from the other edit's result, and uploader, upload
\* time and group are the original ones.
C34_ConcurrentEditsWholeResult ==
    (/\ \A p \in Editors : running[p].pc = "done" /\ running[p].msg = "updated"
     /\ running[Deleter].pc = "idle")
    => /\ \E p \in Editors : \E q \in Editors \ {p} :
             receipts["r1"] \in
                {EditOutcome(OriginalReceipt, running[p].actor, running[p].text),
                 EditOutcome(EditOutcome(OriginalReceipt, running[q].actor,
                                         running[q].text),
                             running[p].actor, running[p].text)}
       /\ receipts["r1"]["telegramUserId"] = OriginalReceipt["telegramUserId"]
       /\ receipts["r1"]["uploadTimestamp"] = OriginalReceipt["uploadTimestamp"]
       /\ receipts["r1"]["groupId"] = OriginalReceipt["groupId"]

\* both edits have written, and the receipt is what the total-only edit of
\* the admin made of the original: the full edit of u1 was written in between
\* and is lost as a whole
C34_Witness ==
    /\ \A p \in Editors : running[p].pc = "done" /\ running[p].msg = "updated"
    /\ running[Deleter].pc = "idle"
    /\ running["e1"].text = EditFull("r1") /\ running["e1"].actor = "u1"
    /\ running["e2"].text = EditTotal("r1") /\ running["e2"].actor = "a"
    /\ receipts["r1"] = EditOutcome(OriginalReceipt, "a", EditTotal("r1"))
    /\ receipts["r1"]["store_name"] = "Example Supermarket"
    /\ receipts["r1"]["editedBy"] = "a"

\* C38: once the delete of a receipt has been carried out and no edit of it
\* is still under way, no document with the receipt's id exists.
C38_DeletedStaysDeleted ==
    (/\ running[Deleter].pc = "done" /\ running[Deleter].msg = "deleted"
     /\ \A p \in Editors : running[p].pc # "write")
    => "r1" \notin DOMAIN receipts

\* C35: an edit whose input is malformed (a text with no Ref line, with a
\* header value that does not parse, with an item line of too few parts or a
\* price that is no number; in the JSON form a syntax error or a payload that
\* is not an object) is answered with an error and leaves every receipt as it
\* was.
C35_MalformedEditWritesNothing ==
    [][(/\ call = Idle /\ call' # Idle
        /\ ~call'.suppressed
        /\ \/ call'.ev.word = "/edit" /\ call'.ev.lines \in MalformedTexts
           \/ /\ call'.ev.word = "handle_edit_receipt_command"
              /\ call'.ev.json.kind \in {"malformed", "not_object"})
       => /\ receipts' = receipts
          /\ call'.msg \in {"not_approved", "parse_error_no_ref",
                            "parse_error_headers", "input_errors", "not_found",
                            "not_authorized", "usage", "invalid_json",
                            "not_an_object"}]_vars

\* the uploader's edit text with a price that is no number has been refused
\* and the receipt is still the unedited upload
C35_Witness ==
    /\ call # Idle
    /\ call.ev.word = "/edit"
    /\ call.ev.lines = EditBadItem("r1")
    /\ call.msg = "input_errors"
    /\ "r1" \in DOMAIN receipts
    /\ Get(receipts["r1"], "telegramUserId", None) = call.ev.from
    /\ ~Has(receipts["r1"], "editedBy")

\* C36: a month wrapper called with a token of two numeric parts whose month
\* is in 1..12 queries the range from the first to the last calendar day of
\* that month, and called with any other token it answers with the
\* invalid-month message and makes no query.
C36_MonthRangeOrRejected ==
    (call # Idle /\ call.ev.word \in {"get_spending_by_category_for_user",
                                      "get_spending_by_store_for_user",
                                      "get_average_receipt_value_for_user"})
    => \A parts \in {call.ev.args} :
          IF /\ Len(parts) = 2
             /\ \A i \in 1..2 : parts[i] # BadVal
             /\ parts[2] \in 1..12
          THEN /\ call.report.queried
               /\ call.report.start_date = <<parts[1], parts[2], 1>>
               /\ call.report.end_date =
                     <<parts[1], parts[2],
                       CASE parts[2] \in {1, 3, 5, 7, 8, 10, 12} -> 31
                         [] parts[2] \in {4, 6, 9, 11} -> 30
                         [] OTHER -> IF parts[1] \in {2000, 2024} THEN 29 ELSE 28>>
          ELSE /\ call.msg = "invalid_month"
               /\ ~call.report.queried

\* C37: in every state after a group operation, a user id listed in the
\* memberUserIds of a group g has a profile whose groupId is g, so that no
\* user id is listed in two groups.
C37_MemberOfOneGroup ==
    \A g \in DOMAIN groups : \A u \in SeqToSet(groups[g].memberUserIds) :
       /\ u \in DOMAIN profiles
       /\ Get(profiles[u], "groupId", None) = g
       /\ \A h \in DOMAIN groups \ {g} : u \notin SeqToSet(groups[h].memberUserIds)

\* C39: the status of a profile that exists changes only by the write of an
\* admin_set_user_status invocation for that user; no write of
\* ensure_user_profile_exists changes it.
C39_StatusOnlyByAdmin ==
    [][\A u \in DOMAIN profiles :
          (/\ u \in DOMAIN profiles'
           /\ Get(profiles'[u], "status", None) # Get(profiles[u], "status", None))
          => \E p \in {"s1", "s2"} :
                /\ running[p].pc = "write" /\ running'[p].pc = "done"
                /\ running[p].doc = u]_vars

\* C40: an image event that reaches the extraction ends either with a new
\* receipt stored and the confirmation sent, or with an error message sent and
\* no receipt stored.
C40_UploadAtomicWithReply ==
    [][(/\ call = Idle /\ call' # Idle
        /\ call'.ev.kind = "message"
        /\ call'.ev.attach \in {"photo", "image_doc"}
        /\ call'.msg \in {"receipt_shown", "image_error", "processing_error"})
       => \/ /\ call'.msg = "receipt_shown"
             /\ DOMAIN receipts' # DOMAIN receipts
          \/ /\ call'.msg # "receipt_shown"
             /\ receipts' = receipts]_vars

====
